---- MODULE Spec2Model ----
(***************************************************************************)
(* A model of the board of capitalist-chess: the twelve occupancy masks,   *)
(* the en-passant target, the castling rights, the side to move and the    *)
(* winner, with Board::apply and everything it calls.                      *)
(*                                                                         *)
(* A tile is its bit index rank * 8 + file (Tile::to_bit), a 64-bit mask   *)
(* is the set of the tiles whose bit is set, and an Option<T> is a set of  *)
(* at most one element.                                                    *)
(***************************************************************************)
EXTENDS Integers, Sequences, FiniteSets, TLC

\* ------------------------------------------------------------------------
\* Bounds of the exploration
\* ------------------------------------------------------------------------

\* The number of Board::apply calls made after the initial position.
MaxCalls == 2

\* The longest compound move (Move::Many) tried.
MaxMany == 2

\* ------------------------------------------------------------------------
\* Colours, piece kinds, ranks, files, tiles (lib.rs)
\* ------------------------------------------------------------------------

Color == {"White", "Black"}

PieceType == {"Pawn", "Knight", "Bishop", "Rook", "Queen", "King"}

PROMOTIONS == <<"Knight", "Bishop", "Rook", "Queen">>

CastlingSide == {"King", "Queen"}

enemy(color) == IF color = "White" THEN "Black" ELSE "White"

Tiles == 0 .. 63

Tile_new(rank, file) == rank * 8 + file

get_rank(tile) == tile \div 8

get_file(tile) == tile % 8

BACK_RANK_WHITE == 0

BACK_RANK_BLACK == 7

PAWN_STARTER_WHITE == 1

PAWN_STARTER_BLACK == 6

WHITE_DIRECTION == 1

BLACK_DIRECTION == -1

KINGSIDE_CASTLE_DESTINATION == 6

QUEENSIDE_CASTLE_DESTINATION == 2

KINGSIDE_ROOK == 7

QUEENSIDE_ROOK == 0

File_KING == 4

WHITE_QUEENSIDE_ROOK_START == Tile_new(BACK_RANK_WHITE, QUEENSIDE_ROOK)

WHITE_KINGSIDE_ROOK_START == Tile_new(BACK_RANK_WHITE, KINGSIDE_ROOK)

BLACK_QUEENSIDE_ROOK_START == Tile_new(BACK_RANK_BLACK, QUEENSIDE_ROOK)

BLACK_KINGSIDE_ROOK_START == Tile_new(BACK_RANK_BLACK, KINGSIDE_ROOK)

WHITE_KING_START == Tile_new(BACK_RANK_WHITE, File_KING)

BLACK_KING_START == Tile_new(BACK_RANK_BLACK, File_KING)

\* Rank::advance without its range check: the rank index a pawn of `color`
\* reaches after `count` steps (Rank_advance_panics tells when the code panics).
Rank_advance(rank, color, count) ==
    IF color = "White" THEN rank + WHITE_DIRECTION * count
    ELSE rank + BLACK_DIRECTION * count

Rank_advance_panics(rank, color, count) ==
    Rank_advance(rank, color, count) < 0 \/ Rank_advance(rank, color, count) > 7

Tile_advance(tile, color, count) ==
    Tile_new(Rank_advance(get_rank(tile), color, count), get_file(tile))

Rank_get_player_side(rank) == IF rank <= 3 THEN "White" ELSE "Black"

get_player_side(tile) == Rank_get_player_side(get_rank(tile))

File_get_castling_side(file) == IF file < 4 THEN "Queen" ELSE "King"

get_castling_side(tile) == File_get_castling_side(get_file(tile))

is_within(a, b, n) == (IF a - b < 0 THEN b - a ELSE a - b) <= n

king_start_position(color) ==
    IF color = "White" THEN WHITE_KING_START ELSE BLACK_KING_START

rook_start_position(color, side) ==
    IF color = "White"
    THEN (IF side = "King" THEN WHITE_KINGSIDE_ROOK_START ELSE WHITE_QUEENSIDE_ROOK_START)
    ELSE (IF side = "King" THEN BLACK_KINGSIDE_ROOK_START ELSE BLACK_QUEENSIDE_ROOK_START)

\* Tile::move_by: the tile as an Option (a set of at most one tile).
move_by(tile, rank, file) ==
    LET new_rank == get_rank(tile) + rank
        new_file == get_file(tile) + file
    IN  IF new_rank < 8 /\ new_file < 8 /\ new_rank >= 0 /\ new_file >= 0
        THEN {Tile_new(new_rank, new_file)}
        ELSE {}

unwrap(option) == CHOOSE x \in option : TRUE

castling_destination_for_king(color, side) ==
    IF color = "White"
    THEN (IF side = "King" THEN unwrap(move_by(WHITE_KING_START, 0, 2))
          ELSE unwrap(move_by(WHITE_KING_START, 0, -2)))
    ELSE (IF side = "King" THEN unwrap(move_by(BLACK_KING_START, 0, 2))
          ELSE unwrap(move_by(BLACK_KING_START, 0, -2)))

castling_destination_for_rook(color, side) ==
    unwrap(move_by(castling_destination_for_king(color, side), 0,
                   IF side = "King" THEN -1 ELSE 1))

\* Tile::step_towards: one step, diagonal or orthogonal, toward the target.
step_towards(tile, target) ==
    Tile_new(
        get_rank(tile) + (IF get_rank(tile) < get_rank(target) THEN 1
                          ELSE IF get_rank(tile) > get_rank(target) THEN -1 ELSE 0),
        get_file(tile) + (IF get_file(tile) < get_file(target) THEN 1
                          ELSE IF get_file(tile) > get_file(target) THEN -1 ELSE 0))

is_knight_move_away(from, to) ==
    \/ is_within(get_rank(from), get_rank(to), 1) /\ is_within(get_file(from), get_file(to), 2)
    \/ is_within(get_rank(from), get_rank(to), 2) /\ is_within(get_file(from), get_file(to), 1)

is_diagonal_to(from, to) ==
    LET dr == get_rank(from) - get_rank(to)
        df == get_file(from) - get_file(to)
    IN  (IF dr < 0 THEN -dr ELSE dr) = (IF df < 0 THEN -df ELSE df)

is_king_move_away(from, to) ==
    is_within(get_rank(from), get_rank(to), 1) /\ is_within(get_file(from), get_file(to), 1)

is_rook_move_away(from, to) ==
    get_rank(from) = get_rank(to) \/ get_file(from) = get_file(to)

is_bishop_move_away(from, to) == is_diagonal_to(from, to)

is_queen_move_away(from, to) == is_rook_move_away(from, to) \/ is_bishop_move_away(from, to)

\* Tile::is_pawn_move_away, for a pawn that is not on its last rank (there
\* Rank::advance panics: can_move_panics).
is_pawn_move_away(from, to, color, is_attack, en_passant_square) ==
    LET my_rank == get_rank(from)
        my_file == get_file(from)
        other_rank == get_rank(to)
        other_file == get_file(to)
    IN  IF is_attack
        THEN /\ Rank_advance(my_rank, color, 1) = other_rank
             /\ is_within(my_file, other_file, 1)
             /\ my_file # other_file
        ELSE \/ /\ en_passant_square = {to}
                /\ Rank_advance(my_rank, color, 1) = other_rank
                /\ is_within(my_file, other_file, 1)
                /\ my_file # other_file
             \/ /\ color = "White"
                /\ my_rank = PAWN_STARTER_WHITE
                /\ Rank_advance(my_rank, color, 2) = other_rank
                /\ my_file = other_file
             \/ /\ color = "Black"
                /\ my_rank = PAWN_STARTER_BLACK
                /\ Rank_advance(my_rank, color, 2) = other_rank
                /\ my_file = other_file
             \/ /\ Rank_advance(my_rank, color, 1) = other_rank
                /\ my_file = other_file

is_rook_square(tile, color) ==
    /\ \/ color = "White" /\ get_rank(tile) = BACK_RANK_WHITE
       \/ color = "Black" /\ get_rank(tile) = BACK_RANK_BLACK
    /\ get_file(tile) = KINGSIDE_ROOK \/ get_file(tile) = QUEENSIDE_ROOK

is_castling_destination_for_king(tile, color) ==
    IF color = "White"
    THEN \/ tile = Tile_new(BACK_RANK_WHITE, KINGSIDE_CASTLE_DESTINATION)
         \/ tile = Tile_new(BACK_RANK_WHITE, QUEENSIDE_CASTLE_DESTINATION)
    ELSE \/ tile = Tile_new(BACK_RANK_BLACK, KINGSIDE_CASTLE_DESTINATION)
         \/ tile = Tile_new(BACK_RANK_BLACK, QUEENSIDE_CASTLE_DESTINATION)

\* Tile::pawn_attacking_bits, for a pawn that is not on its last rank.
pawn_attacking_bits(tile, color) ==
    LET rank == Rank_advance(get_rank(tile), color, 1)
        file == get_file(tile)
    IN  (IF file > 0 THEN {rank * 8 + file - 1} ELSE {})
        \cup (IF file < 7 THEN {rank * 8 + file + 1} ELSE {})

knight_attacking_bits_at(tile) ==
    LET rank == get_rank(tile)
        file == get_file(tile)
    IN  (IF rank > 1 /\ file > 0 THEN {Tile_new(rank - 2, file - 1)} ELSE {})
        \cup (IF rank > 1 /\ file < 7 THEN {Tile_new(rank - 2, file + 1)} ELSE {})
        \cup (IF rank > 0 /\ file > 1 THEN {Tile_new(rank - 1, file - 2)} ELSE {})
        \cup (IF rank > 0 /\ file < 6 THEN {Tile_new(rank - 1, file + 2)} ELSE {})
        \cup (IF rank < 7 /\ file > 1 THEN {Tile_new(rank + 1, file - 2)} ELSE {})
        \cup (IF rank < 7 /\ file < 6 THEN {Tile_new(rank + 1, file + 2)} ELSE {})
        \cup (IF rank < 6 /\ file > 0 THEN {Tile_new(rank + 2, file - 1)} ELSE {})
        \cup (IF rank < 6 /\ file < 7 THEN {Tile_new(rank + 2, file + 1)} ELSE {})

knight_attacking_bits_of == [tile \in Tiles |-> knight_attacking_bits_at(tile)]

knight_attacking_bits(tile) == knight_attacking_bits_of[tile]

\* Tile::diagonal_tiles, tabulated once per tile.
diagonal_tiles_of == [tile \in Tiles |-> {t \in Tiles : is_diagonal_to(tile, t)}]

diagonal_tiles(tile) == diagonal_tiles_of[tile]

\* Tile::rank_tiles (the tiles of the tile's file) and Tile::file_tiles (the
\* tiles of its rank), tabulated once per tile.
rank_tiles_of == [tile \in Tiles |-> {t \in Tiles : get_file(t) = get_file(tile)}]

file_tiles_of == [tile \in Tiles |-> {t \in Tiles : get_rank(t) = get_rank(tile)}]

rank_tiles(tile) == rank_tiles_of[tile]

file_tiles(tile) == file_tiles_of[tile]

rook_attacking_bits(tile) == rank_tiles(tile) \cup file_tiles(tile)

bishop_attacking_bits(tile) == diagonal_tiles(tile)

queen_attacking_bits(tile) == rook_attacking_bits(tile) \cup bishop_attacking_bits(tile)

king_attacking_bits_of ==
    [tile \in Tiles |->
        {t \in Tiles : /\ t # tile
                       /\ is_within(get_rank(t), get_rank(tile), 1)
                       /\ is_within(get_file(t), get_file(tile), 1)}]

king_attacking_bits(tile) == king_attacking_bits_of[tile]

\* ------------------------------------------------------------------------
\* Pieces and the board (board.rs)
\* ------------------------------------------------------------------------

Piece(type, color) == [type |-> type, color |-> color]

\* Option<Piece>::None, as a piece of no kind and no colour.
NoPiece == [type |-> "None", color |-> "None"]

CastlingRights_default ==
    [white_king_side |-> TRUE, white_queen_side |-> TRUE,
     black_king_side |-> TRUE, black_queen_side |-> TRUE]

CastlingRights_none ==
    [white_king_side |-> FALSE, white_queen_side |-> FALSE,
     black_king_side |-> FALSE, black_queen_side |-> FALSE]

\* Board::empty
empty ==
    [white_pawns |-> {}, white_knights |-> {}, white_bishops |-> {}, white_rooks |-> {},
     white_queens |-> {}, white_king |-> {}, black_pawns |-> {}, black_knights |-> {},
     black_bishops |-> {}, black_rooks |-> {}, black_queens |-> {}, black_king |-> {},
     en_passant |-> {}, castling_rights |-> CastlingRights_none,
     current_turn |-> "White", winner |-> {}]

\* Board::set_turn
set_turn(b, color) == [b EXCEPT !.current_turn = color]

\* The mask of a piece kind and colour.
mask_of(type, color) ==
    IF color = "White"
    THEN CASE type = "Pawn" -> "white_pawns" [] type = "Knight" -> "white_knights"
           [] type = "Bishop" -> "white_bishops" [] type = "Rook" -> "white_rooks"
           [] type = "Queen" -> "white_queens" [] type = "King" -> "white_king"
    ELSE CASE type = "Pawn" -> "black_pawns" [] type = "Knight" -> "black_knights"
           [] type = "Bishop" -> "black_bishops" [] type = "Rook" -> "black_rooks"
           [] type = "Queen" -> "black_queens" [] type = "King" -> "black_king"

\* Board::spawn_white_pawn .. Board::spawn_black_king: set the bit, touch nothing else.
spawn_piece(b, type, color, location) ==
    [b EXCEPT ![mask_of(type, color)] = @ \cup {location}]

\* Board::get_piece: the first mask, in this order, that holds the tile.
get_piece(b, location) ==
    IF location \in b.white_pawns THEN Piece("Pawn", "White")
    ELSE IF location \in b.white_knights THEN Piece("Knight", "White")
    ELSE IF location \in b.white_bishops THEN Piece("Bishop", "White")
    ELSE IF location \in b.white_rooks THEN Piece("Rook", "White")
    ELSE IF location \in b.white_queens THEN Piece("Queen", "White")
    ELSE IF location \in b.white_king THEN Piece("King", "White")
    ELSE IF location \in b.black_pawns THEN Piece("Pawn", "Black")
    ELSE IF location \in b.black_knights THEN Piece("Knight", "Black")
    ELSE IF location \in b.black_bishops THEN Piece("Bishop", "Black")
    ELSE IF location \in b.black_rooks THEN Piece("Rook", "Black")
    ELSE IF location \in b.black_queens THEN Piece("Queen", "Black")
    ELSE IF location \in b.black_king THEN Piece("King", "Black")
    ELSE NoPiece

white_pieces_as_bits(b) ==
    b.white_pawns \cup b.white_knights \cup b.white_bishops \cup b.white_rooks
        \cup b.white_queens \cup b.white_king

black_pieces_as_bits(b) ==
    b.black_pawns \cup b.black_knights \cup b.black_bishops \cup b.black_rooks
        \cup b.black_queens \cup b.black_king

all_pieces_as_bits(b) == white_pieces_as_bits(b) \cup black_pieces_as_bits(b)

has_white_piece_on(b, location) == location \in white_pieces_as_bits(b)

has_black_piece_on(b, location) == location \in black_pieces_as_bits(b)

has_piece_on(b, location) == has_white_piece_on(b, location) \/ has_black_piece_on(b, location)

\* Board::remove_piece: clear the bit in all twelve masks.
remove_piece(b, location) ==
    [b EXCEPT !.white_pawns = @ \ {location}, !.white_knights = @ \ {location},
              !.white_bishops = @ \ {location}, !.white_rooks = @ \ {location},
              !.white_queens = @ \ {location}, !.white_king = @ \ {location},
              !.black_pawns = @ \ {location}, !.black_knights = @ \ {location},
              !.black_bishops = @ \ {location}, !.black_rooks = @ \ {location},
              !.black_queens = @ \ {location}, !.black_king = @ \ {location}]

\* move_bit: move the bit if the mask holds it.
move_bit(board, from, to) ==
    IF from \notin board THEN board ELSE (board \ {from}) \cup {to}

\* Board::move_piece: clear the destination, then move the bit in every mask.
move_piece(b, from, to) ==
    [remove_piece(b, to) EXCEPT
        !.white_pawns = move_bit(@, from, to), !.white_knights = move_bit(@, from, to),
        !.white_bishops = move_bit(@, from, to), !.white_rooks = move_bit(@, from, to),
        !.white_queens = move_bit(@, from, to), !.white_king = move_bit(@, from, to),
        !.black_pawns = move_bit(@, from, to), !.black_knights = move_bit(@, from, to),
        !.black_bishops = move_bit(@, from, to), !.black_rooks = move_bit(@, from, to),
        !.black_queens = move_bit(@, from, to), !.black_king = move_bit(@, from, to)]

\* Board::spawn without the removal of what stood on the tile.
spawn_unremoved(b, piece, to) == spawn_piece(b, piece, b.current_turn, to)

\* Board::spawn: a piece of the side to move.
spawn(b, piece, to) == spawn_piece(remove_piece(b, to), piece, b.current_turn, to)

\* Board::default
default ==
    LET place(b, type, color, rank, files) ==
            [b EXCEPT ![mask_of(type, color)] = @ \cup {Tile_new(rank, f) : f \in files}]
        w1 == place(empty, "Pawn", "White", PAWN_STARTER_WHITE, 0 .. 7)
        w2 == place(w1, "Knight", "White", BACK_RANK_WHITE, {1, 6})
        w3 == place(w2, "Bishop", "White", BACK_RANK_WHITE, {2, 5})
        w4 == place(w3, "Rook", "White", BACK_RANK_WHITE, {0, 7})
        w5 == place(w4, "Queen", "White", BACK_RANK_WHITE, {3})
        w6 == place(w5, "King", "White", BACK_RANK_WHITE, {4})
        b1 == place(w6, "Pawn", "Black", PAWN_STARTER_BLACK, 0 .. 7)
        b2 == place(b1, "Knight", "Black", BACK_RANK_BLACK, {1, 6})
        b3 == place(b2, "Bishop", "Black", BACK_RANK_BLACK, {2, 5})
        b4 == place(b3, "Rook", "Black", BACK_RANK_BLACK, {0, 7})
        b5 == place(b4, "Queen", "Black", BACK_RANK_BLACK, {3})
        b6 == place(b5, "King", "Black", BACK_RANK_BLACK, {4})
    IN  [b6 EXCEPT !.castling_rights = CastlingRights_default]

\* is_blocked: walk from `from` toward `to`, at most 8 steps, stopping before `to`.
RECURSIVE is_blocked_walk(_, _, _, _, _)
is_blocked_walk(board, from, tile, to, steps) ==
    IF steps = 0 THEN FALSE
    ELSE LET next == step_towards(tile, to)
         IN  IF next = from THEN is_blocked_walk(board, from, next, to, steps - 1)
             ELSE IF next = to THEN FALSE
             ELSE IF next \in board THEN TRUE
             ELSE is_blocked_walk(board, from, next, to, steps - 1)

\* is_blocked finding every path free.
is_blocked_never(board, from, to) == FALSE

is_blocked(board, from, to) == is_blocked_walk(board, from, from, to, 8)

\* visible_pieces: the tiles of `vision` whose path from `origin` is not blocked.
visible_pieces(all_pieces, origin, vision) ==
    {t \in vision : ~is_blocked(all_pieces, origin, t)}

\* ------------------------------------------------------------------------
\* CastlingRights (board.rs)
\* ------------------------------------------------------------------------

can_castle_color_and_side(rights, color, side) ==
    IF color = "White"
    THEN (IF side = "King" THEN rights.white_king_side ELSE rights.white_queen_side)
    ELSE (IF side = "King" THEN rights.black_king_side ELSE rights.black_queen_side)

disable_castling_color_and_side(rights, color, side) ==
    IF color = "White"
    THEN (IF side = "King" THEN [rights EXCEPT !.white_king_side = FALSE]
          ELSE [rights EXCEPT !.white_queen_side = FALSE])
    ELSE (IF side = "King" THEN [rights EXCEPT !.black_king_side = FALSE]
          ELSE [rights EXCEPT !.black_queen_side = FALSE])

\* A faulty disable_castling_color: the two flags are toggled, not cleared.
disable_castling_color_toggle(rights, color) ==
    IF color = "White"
    THEN [rights EXCEPT !.white_king_side = ~@, !.white_queen_side = ~@]
    ELSE [rights EXCEPT !.black_king_side = ~@, !.black_queen_side = ~@]

disable_castling_color(rights, color) ==
    IF color = "White"
    THEN [rights EXCEPT !.white_king_side = FALSE, !.white_queen_side = FALSE]
    ELSE [rights EXCEPT !.black_king_side = FALSE, !.black_queen_side = FALSE]

\* CastlingRights::is_castling_move
CastlingRights_is_castling_move(rights, king, rook) ==
    LET color == get_player_side(king)
    IN  /\ king = king_start_position(color)
        /\ is_castling_destination_for_king(rook, color) \/ is_rook_square(rook, color)
        /\ can_castle_color_and_side(rights, color, get_castling_side(rook))

\* CastlingRights::disable_castling
disable_castling(rights, king, rook) ==
    IF ~CastlingRights_is_castling_move(rights, king, rook) THEN rights
    ELSE disable_castling_color_and_side(rights, get_player_side(king), get_castling_side(rook))

\* CastlingRights::can_castle
CastlingRights_can_castle(rights, king, rook) ==
    IF ~CastlingRights_is_castling_move(rights, king, rook) THEN FALSE
    ELSE can_castle_color_and_side(rights, get_player_side(king), get_castling_side(rook))

\* ------------------------------------------------------------------------
\* Attacks, check, legality (board.rs)
\* ------------------------------------------------------------------------

pawns_of(b, color) == IF color = "White" THEN b.white_pawns ELSE b.black_pawns

knights_of(b, color) == IF color = "White" THEN b.white_knights ELSE b.black_knights

bishops_of(b, color) == IF color = "White" THEN b.white_bishops ELSE b.black_bishops

rooks_of(b, color) == IF color = "White" THEN b.white_rooks ELSE b.black_rooks

queens_of(b, color) == IF color = "White" THEN b.white_queens ELSE b.black_queens

get_king_bits(b, color) == IF color = "White" THEN b.white_king ELSE b.black_king

\* Board::white_attacking_bits / black_attacking_bits panic (Rank::advance in
\* Tile::pawn_attacking_bits) when a pawn of that colour stands on its last rank.
attacking_bits_panics(b, color) ==
    \E p \in pawns_of(b, color) : Rank_advance_panics(get_rank(p), color, 1)

\* Is tile t in white_attacking_bits / black_attacking_bits of `color`: the
\* union, over the pieces of that colour, of the piece's attack mask, filtered
\* by visible_pieces for every kind but the knight.
is_attacked_by(b, color, t) ==
    LET all == all_pieces_as_bits(b)
    IN  \/ \E p \in pawns_of(b, color) :
              t \in pawn_attacking_bits(p, color) /\ ~is_blocked(all, p, t)
        \/ \E p \in knights_of(b, color) : t \in knight_attacking_bits(p)
        \/ \E p \in bishops_of(b, color) :
              t \in bishop_attacking_bits(p) /\ ~is_blocked(all, p, t)
        \/ \E p \in rooks_of(b, color) :
              t \in rook_attacking_bits(p) /\ ~is_blocked(all, p, t)
        \/ \E p \in queens_of(b, color) :
              t \in queen_attacking_bits(p) /\ ~is_blocked(all, p, t)
        \/ \E p \in get_king_bits(b, color) :
              t \in king_attacking_bits(p) /\ ~is_blocked(all, p, t)

\* The bits of white_attacking_bits / black_attacking_bits that lie in `tiles`.
white_attacking_bits(b, tiles) == {t \in tiles : is_attacked_by(b, "White", t)}

black_attacking_bits(b, tiles) == {t \in tiles : is_attacked_by(b, "Black", t)}

\* Board::get_attacking_bits, masked by `tiles` (the bits its caller reads).
get_attacking_bits(b, color, tiles) ==
    IF color = "White" THEN white_attacking_bits(b, tiles) ELSE black_attacking_bits(b, tiles)

\* The tiles whose bit is_blocked(_, from, to) reads: those its walk visits
\* strictly between `from` and `to`.
RECURSIVE walked_tiles(_, _, _, _)
walked_tiles(from, tile, to, steps) ==
    IF steps = 0 THEN {}
    ELSE LET next == step_towards(tile, to)
         IN  IF next = from THEN walked_tiles(from, next, to, steps - 1)
             ELSE IF next = to THEN {}
             ELSE {next} \cup walked_tiles(from, next, to, steps - 1)

\* Board::is_in_check: the king mask meets the enemy's attacking bits.
is_in_check(b, color) ==
    \E k \in get_king_bits(b, color) : is_attacked_by(b, enemy(color), k)

is_in_check_panics(b, color) == attacking_bits_panics(b, enemy(color))

\* Piece::can_move
can_move(piece, from, to, is_attack, en_passant_tile) ==
    CASE piece.type = "Pawn" -> is_pawn_move_away(from, to, piece.color, is_attack, en_passant_tile)
      [] piece.type = "Knight" -> is_knight_move_away(from, to)
      [] piece.type = "Bishop" -> is_bishop_move_away(from, to)
      [] piece.type = "Rook" -> is_rook_move_away(from, to)
      [] piece.type = "Queen" -> is_queen_move_away(from, to)
      [] piece.type = "King" -> is_king_move_away(from, to)

\* Piece::can_move panics (Rank::advance in Tile::is_pawn_move_away) for a pawn
\* on its last rank, whatever the destination.
can_move_panics(piece, from) ==
    piece.type = "Pawn" /\ Rank_advance_panics(get_rank(from), piece.color, 1)

\* Board::is_castling_move
is_castling_move(b, from, to) ==
    /\ get_piece(b, from).type = "King"
    /\ CastlingRights_is_castling_move(b.castling_rights, from, to)

\* A faulty Board::can_castle: the path is tested against the pieces alone,
\* not against the squares the enemy attacks.
can_castle_through_attack(b, king, rook) ==
    /\ CastlingRights_can_castle(b.castling_rights, king, rook)
    /\ ~is_in_check(b, get_player_side(king))
    /\ get_piece(b, king) # NoPiece
    /\ ~is_blocked(all_pieces_as_bits(b), king, rook)
    /\ get_piece(b, rook) # NoPiece
    /\ get_piece(b, king).type = "King"
    /\ get_piece(b, rook).type = "Rook"

\* Board::can_castle
can_castle(b, king, rook) ==
    /\ CastlingRights_can_castle(b.castling_rights, king, rook)
    /\ ~is_in_check(b, get_player_side(king))
    /\ get_piece(b, king) # NoPiece
    /\ ~is_blocked(all_pieces_as_bits(b)
                      \cup get_attacking_bits(b, enemy(get_piece(b, king).color),
                                              walked_tiles(king, king, rook, 8)),
                   king, rook)
    /\ get_piece(b, rook) # NoPiece
    /\ get_piece(b, king).type = "King"
    /\ get_piece(b, rook).type = "Rook"

can_castle_panics(b, king, rook) ==
    /\ CastlingRights_can_castle(b.castling_rights, king, rook)
    /\ \/ is_in_check_panics(b, get_player_side(king))
       \/ /\ ~is_in_check(b, get_player_side(king))
          /\ get_piece(b, king) # NoPiece
          /\ attacking_bits_panics(b, enemy(get_piece(b, king).color))

\* Board::is_in_check_after_move: probe a copy with the bare relocation.
is_in_check_after_move(b, color, from, to) ==
    is_in_check(move_piece(b, from, to), color)

is_in_check_after_move_panics(b, color, from, to) ==
    is_in_check_panics(move_piece(b, from, to), color)

\* Board::is_legal_piece_move (a release build: INSERT_SANITY_CHECKS is
\* cfg!(debug_assertions); a debug build panics instead wherever sanity_check
\* fails, which only cuts a run short).
is_legal_piece_move(b, from, to) ==
    LET src_piece == get_piece(b, from)
        dst_piece == get_piece(b, to)
    IN  IF src_piece = NoPiece THEN FALSE
        ELSE IF dst_piece # NoPiece
        THEN IF src_piece.color = dst_piece.color
             THEN is_castling_move(b, from, to) /\ can_castle(b, from, to)
             ELSE /\ src_piece.color = b.current_turn
                  /\ can_move(src_piece, from, to, TRUE, b.en_passant)
                  /\ ~(is_blocked(all_pieces_as_bits(b), from, to) /\ src_piece.type # "Knight")
                  /\ ~is_in_check_after_move(b, b.current_turn, from, to)
        ELSE /\ src_piece.color = b.current_turn
             /\ IF is_castling_move(b, from, to)
                THEN can_castle(b, from, to)
                ELSE /\ can_move(src_piece, from, to, FALSE, b.en_passant)
                     /\ ~(is_blocked(all_pieces_as_bits(b), from, to)
                            /\ src_piece.type # "Knight")
                     /\ ~is_in_check_after_move(b, b.current_turn, from, to)

\* Does Board::is_legal_piece_move panic: the same path, up to the first call
\* that panics.
is_legal_piece_move_panics(b, from, to) ==
    LET src_piece == get_piece(b, from)
        dst_piece == get_piece(b, to)
        plain(is_attack) ==
            \/ can_move_panics(src_piece, from)
            \/ /\ can_move(src_piece, from, to, is_attack, b.en_passant)
               /\ ~(is_blocked(all_pieces_as_bits(b), from, to) /\ src_piece.type # "Knight")
               /\ is_in_check_after_move_panics(b, b.current_turn, from, to)
    IN  IF src_piece = NoPiece THEN FALSE
        ELSE IF dst_piece # NoPiece
        THEN IF src_piece.color = dst_piece.color
             THEN is_castling_move(b, from, to) /\ can_castle_panics(b, from, to)
             ELSE src_piece.color = b.current_turn /\ plain(TRUE)
        ELSE /\ src_piece.color = b.current_turn
             /\ IF is_castling_move(b, from, to)
                THEN can_castle_panics(b, from, to)
                ELSE plain(FALSE)

\* ------------------------------------------------------------------------
\* Moves and Board::apply (turn.rs, board.rs)
\* ------------------------------------------------------------------------

\* The variants of Move, as records tagged by `shape`; an Option<PieceType> is
\* a set of at most one piece kind.
FromTo(from, to, promotion) ==
    [shape |-> "FromTo", from |-> from, to |-> to, promotion |-> promotion]

PieceTo(piece, to, promotion) ==
    [shape |-> "PieceTo", piece |-> piece, to |-> to, promotion |-> promotion]

Purchase(piece, to) == [shape |-> "Purchase", piece |-> piece, to |-> to]

Castling(side) == [shape |-> "Castling", side |-> side]

Resign == [shape |-> "Resign"]

Pass == [shape |-> "Pass"]

Many(moves) == [shape |-> "Many", moves |-> moves]

\* Board::is_en_passant_capture
is_en_passant_capture(b, from, to) ==
    /\ b.en_passant = {to}
    /\ get_piece(b, from).type = "Pawn"

\* Board::capture_en_passant
capture_en_passant(b, from) ==
    LET en_passant == unwrap(b.en_passant)
        en_passant_pawn == Tile_advance(en_passant, b.current_turn, -1)
        removed == remove_piece(b, en_passant_pawn)
        moved == move_piece(removed, from, en_passant)
    IN  [moved EXCEPT !.en_passant = {}]

\* A faulty detect_possible_en_passant: the tile the pawn lands on is marked,
\* not the tile it skipped.
detect_possible_en_passant_landing(b, from, to) ==
    IF /\ get_piece(b, from).type = "Pawn"
       /\ get_rank(from) = PAWN_STARTER_WHITE \/ get_rank(from) = PAWN_STARTER_BLACK
       /\ get_rank(to) = PAWN_STARTER_WHITE + 2 \/ get_rank(to) = PAWN_STARTER_BLACK - 2
    THEN [b EXCEPT !.en_passant = {to}]
    ELSE [b EXCEPT !.en_passant = {}]

\* Board::detect_possible_en_passant
detect_possible_en_passant(b, from, to) ==
    IF /\ get_piece(b, from).type = "Pawn"
       /\ get_rank(from) = PAWN_STARTER_WHITE \/ get_rank(from) = PAWN_STARTER_BLACK
       /\ get_rank(to) = PAWN_STARTER_WHITE + 2 \/ get_rank(to) = PAWN_STARTER_BLACK - 2
    THEN [b EXCEPT !.en_passant = {Tile_advance(from, b.current_turn, 1)}]
    ELSE [b EXCEPT !.en_passant = {}]

\* Board::set_winner
set_winner(b, winner) == [b EXCEPT !.winner = {winner}]

\* A faulty Board::get_eligible_piece: the last tile, in Tile::all order,
\* holding a piece of that kind of the side to move that can make the move.
get_eligible_piece_last(b, piece, to) ==
    LET is_attack == has_piece_on(b, to)
        found == {tile \in b[mask_of(piece, b.current_turn)] :
                     /\ get_piece(b, tile) = Piece(piece, b.current_turn)
                     /\ can_move(Piece(piece, b.current_turn), tile, to, is_attack, b.en_passant)}
    IN  IF found = {} THEN {}
        ELSE {CHOOSE tile \in found : \A other \in found : tile >= other}

\* Board::get_eligible_piece: the first tile, in Tile::all order, holding a
\* piece of that kind of the side to move that can make the move; {} for None.
get_eligible_piece(b, piece, to) ==
    LET is_attack == has_piece_on(b, to)
        found == {tile \in b[mask_of(piece, b.current_turn)] :
                     /\ get_piece(b, tile) = Piece(piece, b.current_turn)
                     /\ can_move(Piece(piece, b.current_turn), tile, to, is_attack, b.en_passant)}
    IN  IF found = {} THEN {}
        ELSE {CHOOSE tile \in found : \A other \in found : tile <= other}

\* Board::get_eligible_piece panics when the scan meets a pawn of the side to
\* move on its last rank before it finds a tile.
get_eligible_piece_panics(b, piece, to) ==
    \E tile \in b[mask_of(piece, b.current_turn)] :
        /\ get_piece(b, tile) = Piece(piece, b.current_turn)
        /\ can_move_panics(Piece(piece, b.current_turn), tile)
        /\ \A found \in get_eligible_piece(b, piece, to) : tile < found

\* Board::perform_castling
perform_castling(b, king_tile, rook_tile) ==
    IF ~is_castling_move(b, king_tile, rook_tile) THEN b
    ELSE LET disabled == [b EXCEPT !.castling_rights =
                                 disable_castling(b.castling_rights, king_tile, rook_tile)]
             side == get_castling_side(rook_tile)
             new_king_tile == castling_destination_for_king(b.current_turn, side)
             king_moved == move_piece(disabled, king_tile, new_king_tile)
             new_rook_tile == castling_destination_for_rook(b.current_turn, side)
         IN  move_piece(king_moved, rook_tile, new_rook_tile)

\* Board::detect_disabled_castling_rights
detect_disabled_castling_rights(b, from, to) ==
    [b EXCEPT !.castling_rights =
        IF is_castling_move(b, from, to) THEN disable_castling_color(@, b.current_turn)
        ELSE IF from = WHITE_KINGSIDE_ROOK_START
        THEN disable_castling_color_and_side(@, "White", "King")
        ELSE IF from = WHITE_QUEENSIDE_ROOK_START
        THEN disable_castling_color_and_side(@, "White", "Queen")
        ELSE IF from = BLACK_KINGSIDE_ROOK_START
        THEN disable_castling_color_and_side(@, "Black", "King")
        ELSE IF from = BLACK_QUEENSIDE_ROOK_START
        THEN disable_castling_color_and_side(@, "Black", "Queen")
        ELSE IF from = WHITE_KING_START THEN disable_castling_color(@, "White")
        ELSE IF from = BLACK_KING_START THEN disable_castling_color(@, "Black")
        ELSE @]

\* Board::is_valid_promotion
is_valid_promotion(b, from, to) ==
    /\ get_piece(b, from).type = "Pawn"
    /\ \/ get_rank(to) = BACK_RANK_BLACK /\ get_piece(b, from).color = "White"
       \/ get_rank(to) = BACK_RANK_WHITE /\ get_piece(b, from).color = "Black"

\* The Result of a call with the board it leaves: "Ok", "Err", or "Panic" when
\* the call panics (the board is then the one the call started from).
Outcome(b, result) == [board |-> b, result |-> result]

\* current_turn = !current_turn
flip_turn(b) == [b EXCEPT !.current_turn = enemy(@)]

\* Board::perform_move_from_to once the move is validated: commit it.
commit_move_from_to(b, from, to, promotion) ==
    LET mine == [b EXCEPT !.current_turn = get_piece(b, from).color]
    IN  IF is_castling_move(mine, from, to)
        THEN Outcome(flip_turn(perform_castling(mine, from, to)), "Ok")
        ELSE LET rights == detect_disabled_castling_rights(mine, from, to)
                 removed == remove_piece(rights, to)
                 moved ==
                     IF is_en_passant_capture(rights, from, to)
                     THEN capture_en_passant(rights, from)
                     ELSE IF is_valid_promotion(removed, from, to)
                     THEN spawn(remove_piece(removed, from),
                                IF promotion = {} THEN "Queen" ELSE unwrap(promotion), to)
                     ELSE move_piece(detect_possible_en_passant(removed, from, to), from, to)
             IN  Outcome(flip_turn(moved), "Ok")

\* A faulty perform_move_from_to: the turn is handed to the moved piece's
\* colour before the move is validated, so a rejected move leaves a mark.
perform_move_from_to_turn_first(b, from, to, promotion) ==
    IF is_legal_piece_move_panics(b, from, to) THEN Outcome(b, "Panic")
    ELSE IF ~is_legal_piece_move(b, from, to)
    THEN Outcome(IF get_piece(b, from) = NoPiece THEN b
                 ELSE [b EXCEPT !.current_turn = get_piece(b, from).color], "Err")
    ELSE commit_move_from_to(b, from, to, promotion)

\* Board::perform_move_from_to
perform_move_from_to(b, from, to, promotion) ==
    IF is_legal_piece_move_panics(b, from, to) THEN Outcome(b, "Panic")
    ELSE IF ~is_legal_piece_move(b, from, to) THEN Outcome(b, "Err")
    ELSE commit_move_from_to(b, from, to, promotion)

\* Board::apply (a release build: the sanity assertion is compiled out).
RECURSIVE apply(_, _)
RECURSIVE apply_each(_, _, _)
RECURSIVE apply_each_alternating(_, _, _)
RECURSIVE apply_each_rolled_back(_, _, _)

\* The loop of the Move::Many arm without `self.current_turn = turn`: the
\* sub-moves are made by the two sides in turn.
apply_each_alternating(b, turn, moves) ==
    IF moves = <<>> THEN Outcome(b, "Ok")
    ELSE LET done == apply(b, Head(moves))
         IN  IF done.result # "Ok" THEN done
             ELSE apply_each_alternating(done.board, turn, Tail(moves))

\* The loop of the Move::Many arm undoing the earlier sub-moves when one fails.
apply_each_rolled_back(b, turn, moves) ==
    IF moves = <<>> THEN Outcome(b, "Ok")
    ELSE LET done == apply([b EXCEPT !.current_turn = turn], Head(moves))
         IN  IF done.result # "Ok" THEN done
             ELSE LET rest == apply_each_rolled_back(done.board, turn, Tail(moves))
                  IN  IF rest.result = "Err" THEN Outcome(b, "Err") ELSE rest

apply(b, player_move) ==
    CASE player_move.shape = "FromTo" ->
            perform_move_from_to(b, player_move.from, player_move.to, player_move.promotion)
      [] player_move.shape = "PieceTo" ->
            LET from == get_eligible_piece(b, player_move.piece, player_move.to)
            IN  IF get_eligible_piece_panics(b, player_move.piece, player_move.to)
                THEN Outcome(b, "Panic")
                ELSE IF from = {} THEN Outcome(b, "Err")
                ELSE perform_move_from_to(b, unwrap(from), player_move.to,
                                          player_move.promotion)
      [] player_move.shape = "Castling" ->
            perform_move_from_to(b, king_start_position(b.current_turn),
                                 rook_start_position(b.current_turn, player_move.side), {})
      [] player_move.shape = "Many" ->
            IF player_move.moves # <<>>
            THEN LET done == apply_each(b, b.current_turn, player_move.moves)
                 IN  IF done.result = "Ok"
                     THEN Outcome([done.board EXCEPT !.current_turn = enemy(b.current_turn)], "Ok")
                     ELSE done
            ELSE Outcome(b, "Ok")
      [] player_move.shape = "Resign" ->
            Outcome(flip_turn(set_winner(b, enemy(b.current_turn))), "Ok")
      [] player_move.shape = "Pass" -> Outcome(flip_turn(b), "Ok")
      [] player_move.shape = "Purchase" ->
            Outcome(flip_turn(spawn(b, player_move.piece, player_move.to)), "Ok")

\* The loop of the Move::Many arm: reset the turn, apply, stop at the first
\* failure with whatever the earlier moves did.
apply_each(b, turn, moves) ==
    IF moves = <<>> THEN Outcome(b, "Ok")
    ELSE LET done == apply([b EXCEPT !.current_turn = turn], Head(moves))
         IN  IF done.result # "Ok" THEN done
             ELSE apply_each(done.board, turn, Tail(moves))

\* ------------------------------------------------------------------------
\* Board::sanity_check
\* ------------------------------------------------------------------------

\* Board::sanity_check, its last part: an en-passant target is on the third or
\* the sixth rank, and a pawn of that side stands on the tile right past it.
sanity_check_en_passant(b) ==
    \A en_passant \in b.en_passant :
        /\ \/ get_rank(en_passant) = Rank_advance(PAWN_STARTER_WHITE, "White", 1)
           \/ get_rank(en_passant) = Rank_advance(PAWN_STARTER_BLACK, "Black", 1)
        /\ LET color == get_player_side(en_passant)
               pawn_tile == Tile_advance(en_passant, color, 1)
           IN  get_piece(b, pawn_tile) = Piece("Pawn", color)

\* ------------------------------------------------------------------------
\* Sectors and who controls them; an f64 is the number of its hundredths
\* ------------------------------------------------------------------------

\* Sector::NUM_SECTORS
NUM_SECTORS == 16

\* PieceType::get_value
get_value(type) ==
    CASE type = "Pawn" -> 100
      [] type = "Knight" -> 300
      [] type = "Bishop" -> 315
      [] type = "Rook" -> 500
      [] type = "Queen" -> 900
      [] type = "King" -> 10000

\* Currency::penny, as its amount.
penny == 1

\* Mul<f64> for Currency on amounts: the product cast `as i32`, which drops the
\* fraction.
Currency_mul_f64(amount, rhs) == (amount * rhs) \div 100

\* sector_bits: the tiles of the mask in the sector.
sector_bits(bits, sector) ==
    LET rank == sector \div 4
        file == sector % 4
    IN  {(rank * 2 + i) * 8 + file * 2 + j : i \in 0 .. 1, j \in 0 .. 1} \cap bits

\* The loop of Board::get_sector_values over the tiles left: the values of the
\* pieces of one colour added up.
RECURSIVE sector_value(_, _, _)
sector_value(b, tiles, color) ==
    IF tiles = {} THEN 0
    ELSE LET tile == CHOOSE t \in tiles : TRUE
             piece == get_piece(b, tile)
         IN  (IF piece.color = color THEN Currency_mul_f64(penny, get_value(piece.type)) ELSE 0)
                 + sector_value(b, tiles \ {tile}, color)

\* Board::get_sector_values
get_sector_values(b, sector) ==
    LET bits == sector_bits(all_pieces_as_bits(b), sector)
    IN  << sector_value(b, bits, "White"), sector_value(b, bits, "Black") >>

\* Board::who_controls_sector, as an Option.
who_controls_sector(b, sector) ==
    LET values == get_sector_values(b, sector)
    IN  IF values[1] > values[2] THEN {"White"}
        ELSE IF values[2] > values[1] THEN {"Black"}
        ELSE {}

\* Board::controls_sector
controls_sector(b, sector, color) == who_controls_sector(b, sector) = {color}

\* ------------------------------------------------------------------------
\* Board::is_legal_move
\* ------------------------------------------------------------------------

RECURSIVE is_legal_move(_, _)
RECURSIVE is_legal_move_each(_, _, _)
RECURSIVE is_legal_move_panics(_, _)
RECURSIVE is_legal_move_each_panics(_, _, _)

\* The loop of the Move::Many arm of Board::is_legal_move asking every
\* sub-move of the board the call was made on, and applying none.
is_legal_move_each_unapplied(copy, turn, moves) ==
    \A i \in DOMAIN moves : is_legal_move(set_turn(copy, turn), moves[i])

\* The loop of the Move::Many arm of Board::is_legal_move, on its copy of the
\* board: each sub-move is asked, then applied, with the turn of the caller.
is_legal_move_each(copy, turn, moves) ==
    IF moves = << >> THEN TRUE
    ELSE LET start == set_turn(copy, turn)
         IN  /\ is_legal_move(start, Head(moves))
             /\ \E done \in {apply(start, Head(moves))} :
                    done.result = "Ok" /\ is_legal_move_each(done.board, turn, Tail(moves))

\* The arms of Board::is_legal_move for a move that is not a Move::Many.
is_legal_move_of_one(b, player_move) ==
    CASE player_move.shape = "Castling" ->
            can_castle(b, king_start_position(b.current_turn),
                       rook_start_position(b.current_turn, player_move.side))
      [] player_move.shape = "FromTo" ->
            is_legal_piece_move(b, player_move.from, player_move.to)
      [] player_move.shape = "PieceTo" ->
            LET from == get_eligible_piece(b, player_move.piece, player_move.to)
            IN  from # {} /\ is_legal_piece_move(b, unwrap(from), player_move.to)
      [] player_move.shape = "Pass" -> FALSE
      [] player_move.shape = "Resign" -> TRUE
      [] player_move.shape = "Purchase" ->
            ~has_piece_on(b, player_move.to) /\ ~is_in_check(b, b.current_turn)

\* Board::is_legal_move
is_legal_move(b, player_move) ==
    IF player_move.shape = "Many"
    THEN player_move.moves # << >>
           /\ is_legal_move_each(b, b.current_turn, player_move.moves)
    ELSE is_legal_move_of_one(b, player_move)

\* The arms of Board::is_legal_move for a move that is not a Move::Many panic
\* where the functions they call do.
is_legal_move_of_one_panics(b, player_move) ==
    CASE player_move.shape = "Castling" ->
            can_castle_panics(b, king_start_position(b.current_turn),
                              rook_start_position(b.current_turn, player_move.side))
      [] player_move.shape = "FromTo" ->
            is_legal_piece_move_panics(b, player_move.from, player_move.to)
      [] player_move.shape = "PieceTo" ->
            LET from == get_eligible_piece(b, player_move.piece, player_move.to)
            IN  \/ get_eligible_piece_panics(b, player_move.piece, player_move.to)
                \/ from # {} /\ is_legal_piece_move_panics(b, unwrap(from), player_move.to)
      [] player_move.shape = "Purchase" ->
            ~has_piece_on(b, player_move.to) /\ is_in_check_panics(b, b.current_turn)
      [] OTHER -> FALSE

\* Board::is_legal_move panics where the functions it calls do.
is_legal_move_panics(b, player_move) ==
    IF player_move.shape = "Many"
    THEN is_legal_move_each_panics(b, b.current_turn, player_move.moves)
    ELSE is_legal_move_of_one_panics(b, player_move)

is_legal_move_each_panics(copy, turn, moves) ==
    IF moves = << >> THEN FALSE
    ELSE LET start == set_turn(copy, turn)
         IN  \/ is_legal_move_panics(start, Head(moves))
             \/ /\ is_legal_move(start, Head(moves))
                /\ \E done \in {apply(start, Head(moves))} :
                       \/ done.result = "Panic"
                       \/ /\ done.result = "Ok"
                          /\ is_legal_move_each_panics(done.board, turn, Tail(moves))

\* ------------------------------------------------------------------------
\* Candidate moves, checkmate, stalemate and Move::legal_moves
\* ------------------------------------------------------------------------

\* Tile::pawn_moves
pawn_moves(tile, color) ==
    LET direction == IF color = "White" THEN WHITE_DIRECTION ELSE BLACK_DIRECTION
    IN  move_by(tile, direction, 1) \cup move_by(tile, direction, -1)
          \cup move_by(tile, direction, 0)
          \cup (IF get_rank(tile) \in {PAWN_STARTER_WHITE, PAWN_STARTER_BLACK}
                THEN move_by(tile, direction * 2, 0) ELSE {})

\* Tile::knight_moves
knight_moves(tile) ==
    move_by(tile, 2, 1) \cup move_by(tile, 2, -1) \cup move_by(tile, -2, 1)
      \cup move_by(tile, -2, -1) \cup move_by(tile, 1, 2) \cup move_by(tile, 1, -2)
      \cup move_by(tile, -1, 2) \cup move_by(tile, -1, -2)

\* Tile::bishop_moves
bishop_moves(tile) == diagonal_tiles(tile)

\* Tile::rook_moves
rook_moves(tile) == rank_tiles(tile) \cup file_tiles(tile)

\* Tile::queen_moves
queen_moves(tile) == rank_tiles(tile) \cup file_tiles(tile) \cup diagonal_tiles(tile)

\* Tile::king_moves
king_moves(tile) ==
    move_by(tile, 1, 1) \cup move_by(tile, 1, -1) \cup move_by(tile, -1, 1)
      \cup move_by(tile, -1, -1) \cup move_by(tile, 1, 0) \cup move_by(tile, -1, 0)
      \cup move_by(tile, 0, 1) \cup move_by(tile, 0, -1)

\* Tile::get_moves
get_moves(tile, piece) ==
    CASE piece.type = "Pawn" -> pawn_moves(tile, piece.color)
      [] piece.type = "Knight" -> knight_moves(tile)
      [] piece.type = "Bishop" -> bishop_moves(tile)
      [] piece.type = "Rook" -> rook_moves(tile)
      [] piece.type = "Queen" -> queen_moves(tile)
      [] piece.type = "King" -> king_moves(tile)

\* The tiles holding a piece of one colour.
pieces_as_bits(b, color) ==
    IF color = "White" THEN white_pieces_as_bits(b) ELSE black_pieces_as_bits(b)

\* The loop shared by Board::is_in_checkmate, Board::is_stalemate and
\* Move::legal_moves: the candidate moves of a colour's pieces that
\* is_legal_piece_move accepts.
candidate_moves(b, color) ==
    {<<tile, to>> \in UNION {{tile} \X get_moves(tile, get_piece(b, tile)) :
                                tile \in pieces_as_bits(b, color)} :
        is_legal_piece_move(b, tile, to)}

\* Board::is_in_checkmate
is_in_checkmate(b, color) ==
    is_in_check(b, color) /\ candidate_moves(b, color) = {}

\* Board::is_stalemate without its test for check.
is_stalemate_unchecked(b) ==
    candidate_moves(b, b.current_turn) = {}

\* Board::is_stalemate
is_stalemate(b) ==
    ~is_in_check(b, b.current_turn) /\ candidate_moves(b, b.current_turn) = {}

\* Move::new
Move_new(from, to, promotion) == FromTo(from, to, promotion)

\* Move::legal_moves appending both castling moves without asking can_castle.
legal_moves_castling_untested(b) ==
    {Move_new(m[1], m[2], {}) : m \in candidate_moves(b, b.current_turn)}
      \cup {Castling(side) : side \in CastlingSide}

\* Move::legal_moves, as the set of the moves in the list it returns.
legal_moves(b) ==
    LET turn == b.current_turn
        king_tile == king_start_position(turn)
    IN  (UNION {IF is_valid_promotion(b, m[1], m[2])
                THEN {Move_new(m[1], m[2], {PROMOTIONS[i]}) : i \in DOMAIN PROMOTIONS}
                ELSE {Move_new(m[1], m[2], {})} : m \in candidate_moves(b, turn)})
          \cup {Castling(side) : side \in {sd \in CastlingSide :
                                    can_castle(b, king_tile, rook_start_position(turn, sd))}}

\* Rank::advance panics somewhere in these loops when a pawn stands on its last
\* rank: the functions above return nothing then.
any_pawn_panics(b) ==
    attacking_bits_panics(b, "White") \/ attacking_bits_panics(b, "Black")

\* ------------------------------------------------------------------------
\* Move::from_str: a line typed at the prompt, as the words split_whitespace
\* yields, each word the sequence of its characters
\* ------------------------------------------------------------------------

\* File::from_char: the index of a file letter (the assert fails on any other).
File_from_char == [a |-> 0, b |-> 1, c |-> 2, d |-> 3, e |-> 4, f |-> 5, g |-> 6, h |-> 7]

\* Rank::from_char: the index of a rank digit (the assert fails on any other).
Rank_from_char ==
    ("1" :> 0) @@ ("2" :> 1) @@ ("3" :> 2) @@ ("4" :> 3) @@ ("5" :> 4) @@ ("6" :> 5)
      @@ ("7" :> 6) @@ ("8" :> 7)

\* char::to_ascii_lowercase on the letters of the files.
to_ascii_lowercase(c) ==
    LET upper == ("A" :> "a") @@ ("B" :> "b") @@ ("C" :> "c") @@ ("D" :> "d") @@ ("E" :> "e")
                   @@ ("F" :> "f") @@ ("G" :> "g") @@ ("H" :> "h")
    IN  IF c \in DOMAIN upper THEN upper[c] ELSE c

\* PieceType::from_str, as an Option.
PieceType_from_str(s) ==
    LET letters == ("P" :> "Pawn") @@ ("N" :> "Knight") @@ ("B" :> "Bishop") @@ ("R" :> "Rook")
                     @@ ("Q" :> "Queen") @@ ("K" :> "King")
    IN  IF Len(s) = 1 /\ s[1] \in DOMAIN letters THEN {letters[s[1]]} ELSE {}

\* CastlingSide::from_str, as an Option.
CastlingSide_from_str(s) ==
    IF s = << "O", "-", "O" >> THEN {"King"}
    ELSE IF s = << "O", "-", "O", "-", "O" >> THEN {"Queen"}
    ELSE {}

\* Tile::from_str: Rank::from_char and File::from_char panic on a character they
\* do not know.
Tile_from_str(s) ==
    IF Len(s) # 2 THEN [result |-> "Err"]
    ELSE LET file == to_ascii_lowercase(s[1])
             rank == s[2]
         IN  IF rank \notin DOMAIN Rank_from_char \/ file \notin DOMAIN File_from_char
             THEN [result |-> "Panic"]
             ELSE [result |-> "Ok", tile |-> Tile_new(Rank_from_char[rank], File_from_char[file])]

\* &word[first - 1 .. last], as an Option: the slice panics past the end of the
\* word.
slice(word, first, last) ==
    IF last > Len(word) THEN {} ELSE {SubSeq(word, first, last)}

\* PieceType::from_str(&word[..]).unwrap(), as an Option: nothing when the slice
\* or the unwrap panics.
unwrap_piece(word, first, last) ==
    UNION {PieceType_from_str(s) : s \in slice(word, first, last)}

\* Tile::from_str(&word[..]).unwrap(), as an Option: nothing when the slice,
\* Tile::from_str or the unwrap panics.
unwrap_tile(word, first, last) ==
    {Tile_from_str(s).tile : s \in {w \in slice(word, first, last) : Tile_from_str(w).result = "Ok"}}

\* What Move::from_str returns.
Parsed(player_move) == [result |-> "Ok", move |-> player_move]

\* The loop of Move::from_str over the words left, `moves` the moves pushed so
\* far, and what follows the loop.
RECURSIVE from_str_each(_, _)
from_str_each(words, moves) ==
    IF words = << >>
    THEN IF Len(moves) = 1 THEN Parsed(moves[1]) ELSE Parsed(Many(moves))
    ELSE LET word == Head(words)
             push(player_move) == from_str_each(Tail(words), Append(moves, player_move))
         IN  IF CastlingSide_from_str(word) # {}
             THEN Parsed(Castling(unwrap(CastlingSide_from_str(word))))
             ELSE IF word = << "r", "e", "s", "i", "g", "n" >> THEN Parsed(Resign)
             ELSE IF word = << "p", "a", "s", "s" >> THEN Parsed(Pass)
             ELSE IF word[1] = "$"
             THEN LET piece == unwrap_piece(word, 2, 2)
                      to == unwrap_tile(word, 3, 4)
                  IN  IF piece = {} \/ to = {} THEN [result |-> "Panic"]
                      ELSE push(Purchase(unwrap(piece), unwrap(to)))
             ELSE IF Len(word) = 4
             THEN LET from == unwrap_tile(word, 1, 2)
                      to == unwrap_tile(word, 3, 4)
                  IN  IF from = {} \/ to = {} THEN [result |-> "Panic"]
                      ELSE push(FromTo(unwrap(from), unwrap(to), {}))
             ELSE IF Len(word) = 3
             THEN LET piece == unwrap_piece(word, 1, 1)
                      to == unwrap_tile(word, 2, 3)
                  IN  IF piece = {} \/ to = {} THEN [result |-> "Panic"]
                      ELSE push(PieceTo(unwrap(piece), unwrap(to), {}))
             ELSE IF Len(word) = 2
             THEN LET to == unwrap_tile(word, 1, 2)
                  IN  IF to = {} THEN [result |-> "Panic"]
                      ELSE push(PieceTo("Pawn", unwrap(to), {}))
             ELSE [result |-> "Err"]

\* Move::from_str
from_str(words) == from_str_each(words, << >>)

\* ------------------------------------------------------------------------
\* Move::legal_moves as the Vec it returns
\* ------------------------------------------------------------------------

\* What filter_map(|x| x) yields for one Option<Tile>.
some(option) == IF option = {} THEN << >> ELSE << CHOOSE tile \in option : TRUE >>

\* Tile::all().filter(..): the tiles of a set by ascending index.
RECURSIVE ascending(_)
ascending(tiles) ==
    IF tiles = {} THEN << >>
    ELSE LET least == CHOOSE tile \in tiles : \A other \in tiles : tile <= other
         IN  << least >> \o ascending(tiles \ {least})

\* A faulty Tile::pawn_moves: the steps ahead come before the diagonals.
pawn_moves_iter_straight_first(tile, color) ==
    LET direction == IF color = "White" THEN WHITE_DIRECTION ELSE BLACK_DIRECTION
    IN  some(move_by(tile, direction, 0))
          \o (IF get_rank(tile) \in {PAWN_STARTER_WHITE, PAWN_STARTER_BLACK}
              THEN some(move_by(tile, direction * 2, 0)) ELSE << >>)
          \o some(move_by(tile, direction, 1)) \o some(move_by(tile, direction, -1))

\* Tile::pawn_moves, in the order of the iterator.
pawn_moves_iter(tile, color) ==
    LET direction == IF color = "White" THEN WHITE_DIRECTION ELSE BLACK_DIRECTION
    IN  some(move_by(tile, direction, 1)) \o some(move_by(tile, direction, -1))
          \o some(move_by(tile, direction, 0))
          \o (IF get_rank(tile) \in {PAWN_STARTER_WHITE, PAWN_STARTER_BLACK}
              THEN some(move_by(tile, direction * 2, 0)) ELSE << >>)

\* Tile::knight_moves, in the order of the iterator.
knight_moves_iter(tile) ==
    some(move_by(tile, 2, 1)) \o some(move_by(tile, 2, -1)) \o some(move_by(tile, -2, 1))
      \o some(move_by(tile, -2, -1)) \o some(move_by(tile, 1, 2)) \o some(move_by(tile, 1, -2))
      \o some(move_by(tile, -1, 2)) \o some(move_by(tile, -1, -2))

\* Tile::diagonal_tiles, Tile::rank_tiles (the tiles of the file of this tile,
\* bottom rank first) and Tile::file_tiles (the tiles of its rank, leftmost
\* file first), in the order of the iterators.
diagonal_tiles_iter(tile) == ascending(diagonal_tiles(tile))

rank_tiles_iter(tile) == [r \in 1 .. 8 |-> Tile_new(r - 1, get_file(tile))]

file_tiles_iter(tile) == [f \in 1 .. 8 |-> Tile_new(get_rank(tile), f - 1)]

\* Tile::king_moves, in the order of the iterator.
king_moves_iter(tile) ==
    some(move_by(tile, 1, 1)) \o some(move_by(tile, 1, -1)) \o some(move_by(tile, -1, 1))
      \o some(move_by(tile, -1, -1)) \o some(move_by(tile, 1, 0)) \o some(move_by(tile, -1, 0))
      \o some(move_by(tile, 0, 1)) \o some(move_by(tile, 0, -1))

\* Tile::get_moves, in the order of the iterator.
get_moves_iter(tile, piece) ==
    CASE piece.type = "Pawn" -> pawn_moves_iter(tile, piece.color)
      [] piece.type = "Knight" -> knight_moves_iter(tile)
      [] piece.type = "Bishop" -> diagonal_tiles_iter(tile)
      [] piece.type = "Rook" -> rank_tiles_iter(tile) \o file_tiles_iter(tile)
      [] piece.type = "Queen" ->
             rank_tiles_iter(tile) \o file_tiles_iter(tile) \o diagonal_tiles_iter(tile)
      [] piece.type = "King" -> king_moves_iter(tile)

\* Move::legal_moves, the inner loop: the moves pushed for one piece.
RECURSIVE legal_moves_of_piece(_, _, _)
legal_moves_of_piece(b, tile, tos) ==
    IF tos = << >> THEN << >>
    ELSE (IF ~is_legal_piece_move(b, tile, Head(tos)) THEN << >>
          ELSE IF is_valid_promotion(b, tile, Head(tos))
          THEN [i \in DOMAIN PROMOTIONS |-> Move_new(tile, Head(tos), {PROMOTIONS[i]})]
          ELSE << Move_new(tile, Head(tos), {}) >>)
             \o legal_moves_of_piece(b, tile, Tail(tos))

\* Move::legal_moves, the outer loop from a tile on.
RECURSIVE legal_moves_from_tile(_, _)
legal_moves_from_tile(b, tile) ==
    IF tile \notin Tiles THEN << >>
    ELSE (IF get_piece(b, tile) # NoPiece /\ get_piece(b, tile).color = b.current_turn
          THEN legal_moves_of_piece(b, tile, get_moves_iter(tile, get_piece(b, tile)))
          ELSE << >>)
             \o legal_moves_from_tile(b, tile + 1)

\* Move::legal_moves: the Vec<Move> returned.
legal_moves_vec(b) ==
    LET turn == b.current_turn
        king_tile == king_start_position(turn)
    IN  legal_moves_from_tile(b, 0)
          \o (IF can_castle(b, king_tile, rook_start_position(turn, "King"))
              THEN << Castling("King") >> ELSE << >>)
          \o (IF can_castle(b, king_tile, rook_start_position(turn, "Queen"))
              THEN << Castling("Queen") >> ELSE << >>)

\* ------------------------------------------------------------------------
\* Engine::minimax and Engine::best_move. The search sees a board through
\* whose_turn, legal_moves, apply and evaluate only: the boards searched here
\* are the positions of small games given by those four.
\* ------------------------------------------------------------------------

\* The moves of a position at most.
MaxWidth == 2

\* f64::NEG_INFINITY, below every score; its negation is above every score.
NEG_INFINITY == -1000

\* The n-th move of the list legal_moves returns.
Nth(n) == [shape |-> "Nth", n |-> n]

\* The position a game starts from: `seed` fixes the scores, no move is
\* generated in the positions `stuck`, and the moves leading to the positions
\* `refused` are generated but fail to apply. A position is the path of moves
\* played to it.
Position(seed, stuck, refused, turn) ==
    [seed |-> seed, stuck |-> stuck, refused |-> refused, path |-> << >>, turn |-> turn]

\* StateCapitalistBoard::whose_turn
whose_turn(b) == b.turn

\* Engine::legal_moves: board.legal_moves(), in generation order.
Engine_legal_moves(b) ==
    IF b.path \in b.stuck THEN << >> ELSE [n \in 1 .. MaxWidth |-> Nth(n)]

\* StateCapitalistBoard::apply on a move of the list: Err leaves the board, Ok
\* plays the move and passes the turn.
StateCapitalistBoard_apply(b, player_move) ==
    IF Append(b.path, player_move.n) \in b.refused THEN Outcome(b, "Err")
    ELSE Outcome([b EXCEPT !.path = Append(@, player_move.n), !.turn = enemy(@)], "Ok")

\* The number of a path among the paths.
RECURSIVE path_index(_)
path_index(path) ==
    IF path = << >> THEN 0
    ELSE path_index(SubSeq(path, 1, Len(path) - 1)) * (MaxWidth + 1) + path[Len(path)]

\* Engine::evaluate: a deterministic score of the board for `color`, the
\* opposite for the other colour (as SimpleEngine's).
evaluate(b, color) ==
    LET score == ((path_index(b.path) * (2 * b.seed + 1) + b.seed) % 5) - 2
    IN  IF color = "White" THEN score ELSE -score

\* A score and the move it goes with.
Scored(score, player_move) == [score |-> score, move |-> player_move]

\* Iterator::max_by on the scores: of several greatest elements the last one
\* is returned.
max_by(scores) ==
    scores[CHOOSE i \in DOMAIN scores :
              /\ \A j \in DOMAIN scores : scores[j].score <= scores[i].score
              /\ \A j \in DOMAIN scores : j > i => scores[j].score < scores[i].score]

RECURSIVE minimax(_, _, _, _)
RECURSIVE minimax_unnegated(_, _, _, _)

\* Engine::minimax taking the score of a branch as the recursive call
\* returns it, not negated.
minimax_unnegated(b, depth, color, original_move) ==
    IF depth = 0 THEN Scored(evaluate(b, color), unwrap(original_move))
    ELSE LET legal == Engine_legal_moves(b)
             all_scores_and_moves ==
                 [i \in DOMAIN legal |->
                     LET board_copy == StateCapitalistBoard_apply(b, legal[i])
                     IN  IF board_copy.result = "Err" THEN Scored(NEG_INFINITY, legal[i])
                         ELSE Scored(minimax_unnegated(
                                         board_copy.board, depth - 1, color,
                                         IF original_move = {} THEN {legal[i]}
                                         ELSE original_move).score,
                                     legal[i])]
         IN  IF all_scores_and_moves = << >> THEN Scored(NEG_INFINITY, Pass)
             ELSE max_by(all_scores_and_moves)

\* Engine::minimax, its sibling tasks run one after the other in generation
\* order.
minimax(b, depth, color, original_move) ==
    IF depth = 0 THEN Scored(evaluate(b, color), unwrap(original_move))
    ELSE LET legal == Engine_legal_moves(b)
             all_scores_and_moves ==
                 [i \in DOMAIN legal |->
                     LET board_copy == StateCapitalistBoard_apply(b, legal[i])
                     IN  IF board_copy.result = "Err" THEN Scored(NEG_INFINITY, legal[i])
                         ELSE Scored(-minimax(board_copy.board, depth - 1, color,
                                              IF original_move = {} THEN {legal[i]}
                                              ELSE original_move).score,
                                     legal[i])]
         IN  IF all_scores_and_moves = << >> THEN Scored(NEG_INFINITY, Pass)
             ELSE max_by(all_scores_and_moves)

\* ------------------------------------------------------------------------
\* The economy: Currency amounts, Market, Bank and StateCapitalistBoard
\* (economy/). An f64 is the number of its hundredths.
\* ------------------------------------------------------------------------

\* Currency::doubloon, as its amount.
doubloon == 10

\* PieceType::PURCHASES
PURCHASES == << "Pawn", "Knight", "Bishop", "Rook", "Queen", "King" >>

\* Market::default
Market_default ==
    [pawn_value |-> Currency_mul_f64(doubloon, get_value("Pawn")) * 2,
     knight_value |-> Currency_mul_f64(doubloon, get_value("Knight")) * 2,
     bishop_value |-> Currency_mul_f64(doubloon, get_value("Bishop")) * 2,
     rook_value |-> Currency_mul_f64(doubloon, get_value("Rook")) * 2,
     queen_value |-> Currency_mul_f64(doubloon, get_value("Queen")) * 2,
     king_value |-> Currency_mul_f64(doubloon, get_value("King")) * 2,
     base_move_cost |-> doubloon,
     castling_value |-> doubloon * 2,
     pass_value |-> 0,
     center_sector_income_value |-> doubloon * 2,
     outer_sector_income_value |-> doubloon,
     move_interest_rate |-> 200]

\* Market::with_base_move_cost
with_base_move_cost(market, base_move_cost) ==
    [market EXCEPT !.base_move_cost = base_move_cost]

\* Market::get_piece_value
get_piece_value(market, piece) ==
    CASE piece = "Pawn" -> market.pawn_value
      [] piece = "Knight" -> market.knight_value
      [] piece = "Bishop" -> market.bishop_value
      [] piece = "Rook" -> market.rook_value
      [] piece = "Queen" -> market.queen_value
      [] piece = "King" -> market.king_value

\* f64::powi
RECURSIVE powi(_, _)
powi(rate, n) == IF n = 0 THEN 100 ELSE (powi(rate, n - 1) * rate) \div 100

\* Market::get_move_value
RECURSIVE get_move_value(_, _)
RECURSIVE get_move_value_total(_, _, _)
get_move_value_total(market, moves, i) ==
    IF i > Len(moves) THEN 0
    ELSE Currency_mul_f64(get_move_value(market, moves[i]),
                          powi(market.move_interest_rate, i - 1))
            + get_move_value_total(market, moves, i + 1)

get_move_value(market, player_move) ==
    CASE player_move.shape \in {"FromTo", "PieceTo"} -> market.base_move_cost
      [] player_move.shape = "Purchase" -> get_piece_value(market, player_move.piece)
      [] player_move.shape = "Castling" -> market.castling_value
      [] player_move.shape = "Many" -> get_move_value_total(market, player_move.moves, 1)
      [] player_move.shape = "Pass" -> market.pass_value
      [] player_move.shape = "Resign" -> 0

\* Sector::is_center
is_center(sector) == sector \in {5, 6, 9, 10}

\* Sector::is_home_for
is_home_for(sector, color) == IF color = "White" THEN sector <= 3 ELSE sector >= 12

\* Tile::get_sector
get_sector(tile) == (get_rank(tile) \div 2) * 4 + (get_file(tile) \div 2)

\* Market::get_sector_value
get_sector_value(market, sector) ==
    IF is_center(sector) THEN market.center_sector_income_value
    ELSE market.outer_sector_income_value

\* Board::get_controlled_sectors, as the set of the sectors that are true.
get_controlled_sectors(b, color) ==
    {sector \in 0 .. NUM_SECTORS - 1 : controls_sector(b, sector, color)}

\* Bank::new
Bank_new(color, market) ==
    [color |-> color, balance |-> 0, market |-> market,
     sectors |-> IF color = "White" THEN {0, 1, 2, 3} ELSE {12, 13, 14, 15}]

\* Bank::can_afford
can_afford(bank, player_move) == bank.balance >= get_move_value(bank.market, player_move)

\* What a call on a bank leaves and returns.
Banked(bank, result) == [bank |-> bank, result |-> result]

\* Bank::withdraw
withdraw(bank, amount) ==
    IF bank.balance < amount THEN Banked(bank, "Err")
    ELSE Banked([bank EXCEPT !.balance = @ - amount], "Ok")

\* Bank::purchase
purchase(bank, player_move) == withdraw(bank, get_move_value(bank.market, player_move))

\* Bank::calculate_income
RECURSIVE income_of(_, _)
income_of(market, sectors) ==
    IF sectors = {} THEN 0
    ELSE LET sector == CHOOSE s \in sectors : TRUE
         IN  get_sector_value(market, sector) + income_of(market, sectors \ {sector})

calculate_income(bank) == income_of(bank.market, bank.sectors)

\* Bank::perform_census
perform_census(bank, b) ==
    LET counted == [bank EXCEPT !.sectors = get_controlled_sectors(b, bank.color)]
    IN  [counted EXCEPT !.balance = @ + calculate_income(counted)]

\* A StateCapitalistBoard of a market, two banks and a board.
StateCapitalistBoard(market, white_bank, black_bank, b) ==
    [market |-> market, white_bank |-> white_bank, black_bank |-> black_bank, board |-> b]

\* StateCapitalistBoard::get_bank
get_bank(s, color) == IF color = "White" THEN s.white_bank ELSE s.black_bank

\* StateCapitalistBoard::get_bank_mut, assigned.
set_bank(s, color, bank) ==
    IF color = "White" THEN [s EXCEPT !.white_bank = bank] ELSE [s EXCEPT !.black_bank = bank]

\* StateCapitalistBoard::perform_census_for_color
perform_census_for_color(s, color) ==
    set_bank(s, color, perform_census(get_bank(s, color), s.board))

\* StateCapitalistBoard::new
StateCapitalistBoard_new(market) ==
    perform_census_for_color(
        StateCapitalistBoard(market, Bank_new("White", market), Bank_new("Black", market),
                             default),
        "White")

\* What a call on a StateCapitalistBoard leaves and returns.
Stated(s, result) == [state |-> s, result |-> result]

\* The answer of a call that may panic: "true", "false" or "panic".
answer(panics, holds) == IF panics THEN "panic" ELSE IF holds THEN "true" ELSE "false"

RECURSIVE StateCapitalistBoard_is_legal_move(_, _)
RECURSIVE StateCapitalistBoard_is_legal_move_each(_, _, _)
RECURSIVE apply_with_census(_, _, _)

\* The loop of the Move::Many arm of StateCapitalistBoard::is_legal_move on its
\* copy: each sub-move is asked, then applied without a census and unwrapped.
StateCapitalistBoard_is_legal_move_each(copy, turn, moves) ==
    IF moves = << >> THEN "true"
    ELSE LET start == [copy EXCEPT !.board = set_turn(@, turn)]
             asked == StateCapitalistBoard_is_legal_move(start, Head(moves))
         IN  IF asked # "true" THEN asked
             ELSE LET done == apply_with_census(start, Head(moves), FALSE)
                  IN  IF done.result # "Ok" THEN "panic"
                      ELSE StateCapitalistBoard_is_legal_move_each(done.state, turn,
                                                                   Tail(moves))

\* StateCapitalistBoard::is_legal_move, with the panics of the calls it makes;
\* the moves it hands to Board::is_legal_move are no Move::Many.
StateCapitalistBoard_is_legal_move(s, player_move) ==
    LET turn == s.board.current_turn
    IN  CASE player_move.shape = "Purchase" ->
                IF has_piece_on(s.board, player_move.to) THEN "false"
                ELSE IF ~is_home_for(get_sector(player_move.to), turn) THEN "false"
                ELSE IF ~can_afford(get_bank(s, turn), player_move) THEN "false"
                ELSE answer(is_legal_move_of_one_panics(s.board, player_move),
                            is_legal_move_of_one(s.board, player_move))
          [] player_move.shape = "Pass" ->
                answer(FALSE, can_afford(get_bank(s, turn), player_move))
          [] player_move.shape = "Many" ->
                StateCapitalistBoard_is_legal_move_each(s, turn, player_move.moves)
          [] OTHER ->
                answer(is_legal_move_of_one_panics(s.board, player_move),
                       is_legal_move_of_one(s.board, player_move))

\* StateCapitalistBoard::apply (census) and ::apply_without_census (no census):
\* the move is asked, bought from the mover's bank, applied to the board, and
\* the other colour's census taken.
apply_with_census(s, player_move, census) ==
    LET turn == s.board.current_turn
        asked == StateCapitalistBoard_is_legal_move(s, player_move)
        bought == purchase(get_bank(s, turn), player_move)
        paid == set_bank(s, turn, bought.bank)
        done == apply(paid.board, player_move)
        moved == [paid EXCEPT !.board = done.board]
    IN  IF asked = "panic" THEN Stated(s, "Panic")
        ELSE IF asked = "false" THEN Stated(s, "Err")
        ELSE IF bought.result = "Err" THEN Stated(s, "Err")
        ELSE IF done.result # "Ok" THEN Stated(moved, done.result)
        ELSE IF census THEN Stated(perform_census_for_color(moved, enemy(turn)), "Ok")
        ELSE Stated(moved, "Ok")

\* StateCapitalistBoard::apply
State_apply(s, player_move) == apply_with_census(s, player_move, TRUE)

\* StateCapitalistBoard::apply_without_census
apply_without_census(s, player_move) == apply_with_census(s, player_move, FALSE)

\* Move::legal_purchases, as a set.
legal_purchases(b, bank) ==
    {player_move \in {Purchase(PURCHASES[i], to) :
                         i \in DOMAIN PURCHASES, to \in {t \in Tiles : ~has_piece_on(b, t)}} :
        /\ is_home_for(get_sector(player_move.to), bank.color)
        /\ can_afford(bank, player_move)
        /\ ~is_in_check(b, b.current_turn)}

\* StateCapitalistBoard::legal_moves, as a set: the purchases, then the moves
\* on the board.
StateCapitalistBoard_legal_moves(s) ==
    legal_purchases(s.board, get_bank(s, s.board.current_turn)) \cup legal_moves(s.board)

\* StateCapitalistBoard::legal_moves panics when one of its asserts fails.
StateCapitalistBoard_legal_moves_panics(s) ==
    \E player_move \in StateCapitalistBoard_legal_moves(s) :
        StateCapitalistBoard_is_legal_move(s, player_move) # "true"

\* The market and the banks of a StateCapitalistBoard, without its board.
banks_of(s) == [market |-> s.market, white_bank |-> s.white_bank, black_bank |-> s.black_bank]

\* ------------------------------------------------------------------------
\* The positions explored
\* ------------------------------------------------------------------------

\* Tile::from_str on a file letter and a rank digit: "e2" is at("e", 2).
at(file, rank) == Tile_new(rank - 1, File_from_char[file])

\* A plain relocation, written from-square to-square.
mv(f1, r1, f2, r2) == FromTo(at(f1, r1), at(f2, r2), {})

\* Board::apply on each move of a game in turn, from Board::default().
RECURSIVE play(_, _)
play(b, moves) ==
    IF moves = <<>> THEN Outcome(b, "Ok")
    ELSE CHOOSE played \in {IF done.result # "Ok" THEN done ELSE play(done.board, Tail(moves)) :
                             done \in {apply(b, Head(moves))}} : TRUE

\* Both sides develop until each may castle on either side; White to move.
OpeningCastle ==
    << mv("g", 1, "f", 3), mv("g", 8, "f", 6), mv("g", 2, "g", 3), mv("g", 7, "g", 6),
       mv("f", 1, "g", 2), mv("f", 8, "g", 7), mv("b", 1, "c", 3), mv("b", 8, "c", 6),
       mv("d", 2, "d", 3), mv("d", 7, "d", 6), mv("c", 1, "e", 3), mv("c", 8, "e", 6),
       mv("d", 1, "d", 2), mv("d", 8, "d", 7) >>

\* The white king walks to g5 behind its pawn on e5 while a black rook comes
\* to b5; Black to move, with the pawn on d7 still at home.
OpeningEnPassant ==
    << mv("e", 2, "e", 4), mv("a", 7, "a", 5), mv("e", 4, "e", 5), mv("a", 8, "a", 6),
       mv("e", 1, "e", 2), mv("a", 6, "b", 6), mv("e", 2, "e", 3), mv("b", 6, "b", 5),
       mv("e", 3, "f", 4), mv("a", 5, "a", 4), mv("f", 4, "g", 5) >>

\* White brings the queen-side rook round to g1 while Black passes; the king
\* and the rook on h1 have not moved; White to move.
OpeningRook ==
    << mv("a", 2, "a", 4), Pass, mv("a", 1, "a", 3), Pass, mv("g", 2, "g", 4), Pass,
       mv("a", 3, "g", 3), Pass, mv("g", 1, "f", 3), Pass, mv("f", 1, "h", 3), Pass,
       mv("g", 3, "g", 1), Pass >>

\* A white pawn reaches b7 by capturing; White to move.
OpeningPromotion ==
    << mv("a", 2, "a", 4), mv("h", 7, "h", 6), mv("a", 4, "a", 5), mv("h", 6, "h", 5),
       mv("a", 5, "a", 6), mv("h", 5, "h", 4), mv("a", 6, "b", 7), mv("h", 4, "h", 3) >>

\* White is ready to castle king-side but for the black bishop on a6, which
\* attacks f1; White to move.
OpeningAttacked ==
    << mv("e", 2, "e", 4), mv("b", 7, "b", 6), mv("g", 2, "g", 3), mv("c", 8, "a", 6),
       mv("f", 1, "g", 2), Pass, mv("g", 1, "f", 3), Pass >>

\* As OpeningEnPassant, then Black pushes d7-d5 past the white pawn and White
\* passes; Black to move.
OpeningExpired == OpeningEnPassant \o << mv("d", 7, "d", 5), Pass >>

\* Black mates in two; White to move.
OpeningMate ==
    << mv("f", 2, "f", 3), mv("e", 7, "e", 5), mv("g", 2, "g", 4), mv("d", 8, "h", 4) >>

\* White's queen takes five pieces and shuts Black in; Black to move.
OpeningStalemate ==
    << mv("e", 2, "e", 3), mv("a", 7, "a", 5), mv("d", 1, "h", 5), mv("a", 8, "a", 6),
       mv("h", 5, "a", 5), mv("h", 7, "h", 5), mv("h", 2, "h", 4), mv("a", 6, "h", 6),
       mv("a", 5, "c", 7), mv("f", 7, "f", 6), mv("c", 7, "d", 7), mv("e", 8, "f", 7),
       mv("d", 7, "b", 7), mv("d", 8, "d", 3), mv("b", 7, "b", 8), mv("d", 3, "h", 7),
       mv("b", 8, "c", 8), mv("f", 7, "g", 6), mv("c", 8, "e", 6) >>

Openings ==
    {<< >>, OpeningCastle, OpeningEnPassant, OpeningRook, OpeningPromotion, OpeningAttacked,
     OpeningExpired, OpeningMate, OpeningStalemate}

\* The positions the openings reach, each move accepted by Board::apply.
Positions ==
    {play(default, opening).board :
        opening \in {o \in Openings : play(default, o).result = "Ok"}}

\* The tiles Board::apply hands to perform_move_from_to for a single piece move.
from_of(b, player_move) ==
    IF player_move.shape = "Castling" THEN king_start_position(b.current_turn)
    ELSE IF player_move.shape = "PieceTo"
         THEN unwrap(get_eligible_piece(b, player_move.piece, player_move.to))
    ELSE player_move.from

to_of(b, player_move) ==
    IF player_move.shape = "Castling"
    THEN rook_start_position(b.current_turn, player_move.side)
    ELSE player_move.to

\* The square a move accepted on b skips when it is a double pawn push from the
\* starting rank (for a compound move, its last sub-move); none otherwise.
RECURSIVE skipped_by(_, _), skipped_each(_, _, _, _)
skipped_by(b, player_move) ==
    IF player_move.shape = "Many"
    THEN skipped_each(b, b.current_turn, player_move.moves, {})
    ELSE IF player_move.shape \notin {"FromTo", "PieceTo", "Castling"} THEN {}
    ELSE LET from == from_of(b, player_move)
             to == to_of(b, player_move)
             piece == get_piece(b, from)
         IN  IF /\ ~is_castling_move(b, from, to)
                /\ piece.type = "Pawn"
                /\ get_file(from) = get_file(to)
                /\ \/ /\ piece.color = "White"
                      /\ get_rank(from) = PAWN_STARTER_WHITE
                      /\ get_rank(to) = PAWN_STARTER_WHITE + 2
                   \/ /\ piece.color = "Black"
                      /\ get_rank(from) = PAWN_STARTER_BLACK
                      /\ get_rank(to) = PAWN_STARTER_BLACK - 2
             THEN {Tile_new((get_rank(from) + get_rank(to)) \div 2, get_file(from))}
             ELSE {}

skipped_each(b, turn, moves, skipped) ==
    IF moves = << >> THEN skipped
    ELSE LET start == set_turn(b, turn)
             done == apply(start, Head(moves))
         IN  IF done.result # "Ok" THEN skipped
             ELSE skipped_each(done.board, turn, Tail(moves), skipped_by(start, Head(moves)))

\* The square skipped by the last move of an opening.
opening_window(opening) ==
    IF opening = << >> THEN {}
    ELSE skipped_by(play(default, SubSeq(opening, 1, Len(opening) - 1)).board,
                    opening[Len(opening)])

\* ------------------------------------------------------------------------
\* The state machine: a board and the calls of Board::apply made on it
\* ------------------------------------------------------------------------

VARIABLES
    board,      \* the Board
    prev,       \* the Board as it was when the last call started
    last,       \* the Move of the last call (only its shape once the call failed)
    result,     \* what the last call returned: "Ok", "Err", "Panic"; "None" before any
    calls,      \* the number of calls made
    window,     \* the square a double pawn push skipped, when the half-move played
                \* just before the last call was one
    line,       \* the words of the line Move::from_str was last given
    parsed,     \* what Move::from_str returned for it
    search,     \* the call of Engine::minimax in progress and its parallel tasks
    economy,    \* the market and the two banks of a StateCapitalistBoard whose
                \* board is `board` (kept by the eighth state machine)
    castlers    \* the colours that castled, or whose king left its home square, in
                \* the calls made before the last one (kept by the seventh state
                \* machine, empty in the others)

board_vars == <<board, prev, last, result, calls, window, castlers>>

parse_vars == <<line, parsed>>

engine_vars == <<search>>

economy_vars == <<economy>>

vars == <<board, prev, last, result, calls, window, line, parsed, search, economy, castlers>>

\* The squares a caller moves from and to.
FromTiles ==
    {at("e", 1), at("e", 8), at("h", 1), at("a", 1), at("e", 2), at("d", 7), at("e", 5),
     at("b", 7)}

ToTiles ==
    {at("g", 1), at("h", 1), at("c", 1), at("a", 1), at("f", 1), at("h", 8), at("c", 8),
     at("a", 8), at("e", 4), at("e", 3), at("d", 5), at("d", 6), at("a", 7)}

\* The promotion argument of a caller: a kind is named only for a move to a
\* back rank, and every kind but the king for a move to a8.
PromotionArgs(to) ==
    IF to = BLACK_QUEENSIDE_ROOK_START THEN {{}} \cup {{kind} : kind \in PieceType \ {"King"}}
    ELSE IF get_rank(to) \in {BACK_RANK_WHITE, BACK_RANK_BLACK} THEN {{}, {"Knight"}}
    ELSE {{}}

\* The piece kinds a caller names in a PieceTo move.
PieceArgs == {"Pawn", "Rook", "King"}

\* The purchases a caller makes.
PurchaseArgs == {Purchase(piece, to) : piece \in {"Pawn", "Rook"}, to \in {at("g", 1), at("a", 8)}}

\* The moves a caller puts in a compound move, and the compound moves made.
ManyMoves == {Pass, Castling("King"), mv("e", 2, "e", 4)}

RECURSIVE ManyArgsOfLen(_)
ManyArgsOfLen(n) ==
    IF n = 0 THEN {<< >>}
    ELSE {Append(moves, m) : moves \in ManyArgsOfLen(n - 1), m \in ManyMoves}

ManyArgs == UNION {ManyArgsOfLen(n) : n \in 0 .. MaxMany}

\* The square skipped by a double pawn push when the last half-move played,
\* the last call included, was one.
window_now ==
    IF result = "Ok" THEN skipped_by(prev, last) ELSE window

Init ==
    /\ board \in Positions
    /\ prev = board
    /\ last = [shape |-> "None"]
    /\ result = "None"
    /\ calls = 0
    /\ window \in {opening_window(opening) :
                     opening \in {o \in Openings : play(default, o) = Outcome(board, "Ok")}}
    /\ line = << >>
    /\ parsed = [result |-> "None"]
    /\ search = [phase |-> "idle"]
    /\ castlers = {}
    /\ economy = banks_of(StateCapitalistBoard_new(Market_default))

\* One call board.apply(player_move); a panic ends the run.
Call(player_move) ==
    /\ calls < MaxCalls
    /\ result # "Panic"
    /\ LET done == apply(board, player_move)
       IN  /\ board' = done.board
           /\ result' = done.result
           /\ last' = IF done.result = "Ok" THEN player_move
                      ELSE [shape |-> player_move.shape]
    /\ prev' = board
    /\ calls' = calls + 1
    /\ window' = window_now
    /\ UNCHANGED <<castlers, parse_vars, engine_vars, economy_vars>>

ApplyFromTo ==
    \E from \in FromTiles, to \in ToTiles :
        \E promotion \in PromotionArgs(to) : Call(FromTo(from, to, promotion))

ApplyPieceTo ==
    \E piece \in PieceArgs, to \in ToTiles :
        \E promotion \in PromotionArgs(to) : Call(PieceTo(piece, to, promotion))

ApplyCastling == \E side \in CastlingSide : Call(Castling(side))

ApplyMany == \E moves \in ManyArgs : Call(Many(moves))

ApplyResign == Call(Resign)

ApplyPass == Call(Pass)

ApplyPurchase == \E player_move \in PurchaseArgs : Call(player_move)

Next ==
    \/ ApplyFromTo
    \/ ApplyPieceTo
    \/ ApplyCastling
    \/ ApplyMany
    \/ ApplyResign
    \/ ApplyPass
    \/ ApplyPurchase

Spec == Init /\ [][Next]_vars

\* ------------------------------------------------------------------------
\* A second state machine: calls of Board::apply whose move is remembered
\* whatever the call returns
\* ------------------------------------------------------------------------

\* The calls made on a board by the second state machine.
MaxTurns == 1

\* The moves it passes: the compound moves, and single moves of every kind.
KeptArgs ==
    {Many(moves) : moves \in ManyArgs}
      \cup {Many(<< first, second >>) :
                first \in {mv("e", 2, "e", 4), mv("e", 4, "e", 5)},
                second \in {mv("e", 2, "e", 4), mv("e", 4, "e", 5)}}
      \cup {FromTo(from, to, {}) : from \in FromTiles, to \in ToTiles}
      \cup {PieceTo(piece, to, {}) : piece \in PieceArgs, to \in {at("e", 4), at("f", 1)}}
      \cup {Castling(side) : side \in CastlingSide}
      \cup PurchaseArgs
      \cup {Purchase("Rook", at("d", 5))}
      \cup {Resign, Pass}

\* One call board.apply(player_move); a panic ends the run.
CallKept(player_move) ==
    /\ calls < MaxTurns
    /\ result # "Panic"
    /\ \E done \in {apply(board, player_move)} :
           /\ board' = done.board
           /\ result' = done.result
    /\ last' = player_move
    /\ prev' = board
    /\ calls' = calls + 1
    /\ window' = window_now
    /\ UNCHANGED <<castlers, parse_vars, engine_vars, economy_vars>>

ApplyKept == \E player_move \in KeptArgs : CallKept(player_move)

SpecKept == Init /\ [][ApplyKept]_vars

\* ------------------------------------------------------------------------
\* A third state machine: a line read at the prompt and parsed
\* ------------------------------------------------------------------------

\* The words of a line at most.
MaxWords == 2

\* The words typed: one well-formed word of each kind, and malformed ones (a
\* rank 9, a file i, a piece X, five characters, one character, a purchase cut
\* short).
ParseWords ==
    {<< "e", "2", "e", "4" >>, << "E", "7", "e", "5" >>, << "N", "f", "3" >>, << "e", "4" >>,
     << "$", "Q", "d", "1" >>, << "O", "-", "O" >>, << "O", "-", "O", "-", "O" >>,
     << "r", "e", "s", "i", "g", "n" >>, << "p", "a", "s", "s" >>,
     << "e", "2", "e", "9" >>, << "i", "2", "e", "4" >>, << "X", "f", "3" >>,
     << "e", "2", "e", "4", "q" >>, << "e" >>, << "$", "Q" >>}

RECURSIVE ParseLinesOfLen(_)
ParseLinesOfLen(n) ==
    IF n = 0 THEN {<< >>}
    ELSE {Append(words, word) : words \in ParseLinesOfLen(n - 1), word \in ParseWords}

ParseLines == UNION {ParseLinesOfLen(n) : n \in 0 .. MaxWords}

InitParse ==
    /\ board = default
    /\ prev = default
    /\ last = [shape |-> "None"]
    /\ result = "None"
    /\ calls = 0
    /\ window = {}
    /\ line \in ParseLines
    /\ parsed = [result |-> "None"]
    /\ search = [phase |-> "idle"]
    /\ castlers = {}
    /\ economy = banks_of(StateCapitalistBoard_new(Market_default))

\* Move::from_str(input) on the line read.
ReadLine ==
    /\ parsed.result = "None"
    /\ parsed' = from_str(line)
    /\ UNCHANGED <<board_vars, line, engine_vars, economy_vars>>

SpecParse == InitParse /\ [][ReadLine]_vars

\* ------------------------------------------------------------------------
\* A fifth state machine: one piece put on a board or taken from it
\* ------------------------------------------------------------------------

\* One call of a function that edits the board.
Edit(b, edit) ==
    /\ last.shape = "None"
    /\ board' = b
    /\ last' = edit
    /\ prev' = board
    /\ result' = "Ok"
    /\ calls' = calls + 1
    /\ UNCHANGED <<window, castlers, parse_vars, engine_vars, economy_vars>>

\* board.spawn(piece, to)
Spawn ==
    \E piece \in PieceType, to \in Tiles :
        Edit(spawn(board, piece, to), [shape |-> "Spawn", piece |-> piece, to |-> to])

\* board.spawn_white_pawn(location), .. board.spawn_black_king(location)
SpawnPrimitive ==
    \E piece \in PieceType, color \in Color, location \in Tiles :
        Edit(spawn_piece(board, piece, color, location),
             [shape |-> "SpawnPrimitive", piece |-> piece, color |-> color, to |-> location])

\* board.remove_piece(location)
Remove ==
    \E location \in Tiles :
        Edit(remove_piece(board, location), [shape |-> "Remove", to |-> location])

NextEdit ==
    \/ Spawn
    \/ SpawnPrimitive
    \/ Remove

SpecEdit == Init /\ [][NextEdit]_vars

\* ------------------------------------------------------------------------
\* A fourth state machine: one call of Engine::minimax, its sibling tasks
\* running in parallel; the calls the tasks make run to their end in one step
\* ------------------------------------------------------------------------

\* The seeds of the games searched.
MaxSeed == 3

\* The games searched: all moves play, or some position has none, or some move
\* fails to apply.
Games ==
    {Position(seed, stuck, refused, turn) :
        seed \in 0 .. MaxSeed,
        stuck \in {{}, {<< >>}, {<< 1 >>}, {<< 2, 1 >>}},
        refused \in {{}, {<< 2 >>}, {<< 1, 2 >>}},
        turn \in Color}

\* The depths searched from a root: best_move searches at depth 4.
MaxDepth == 4

\* The calls of minimax made on a position for its side to move, as best_move
\* makes them, at each depth, and the call a task of the call of best_move
\* makes on the position its move leads to.
Searches ==
    {[board |-> b, depth |-> depth, color |-> whose_turn(b), original_move |-> {}] :
        b \in Games, depth \in 1 .. MaxDepth}
      \cup {[board |-> StateCapitalistBoard_apply(b, Nth(1)).board, depth |-> 3,
              color |-> whose_turn(b), original_move |-> {Nth(1)}] : b \in Games}

InitEngine ==
    /\ board = default
    /\ prev = default
    /\ last = [shape |-> "None"]
    /\ result = "None"
    /\ calls = 0
    /\ window = {}
    /\ line = << >>
    /\ parsed = [result |-> "None"]
    /\ castlers = {}
    /\ economy = banks_of(StateCapitalistBoard_new(Market_default))
    /\ \E call \in Searches :
           search = [phase |-> "called", board |-> call.board, depth |-> call.depth,
                     color |-> call.color, original_move |-> call.original_move,
                     entry |-> call.board, tasks |-> << >>, order |-> << >>,
                     answer |-> Scored(0, Pass)]

\* A task of the parallel map, not started.
Task(legal_move) == [pc |-> "forked", move |-> legal_move, board_copy |-> {}, score |-> 0]

\* self.legal_moves(board).par_iter().map(..): one task for each legal move.
Fork ==
    /\ search.phase = "called"
    /\ search' = IF search.depth = 0
                 THEN [search EXCEPT !.phase = "returned",
                                     !.answer = Scored(evaluate(search.board, search.color),
                                                       unwrap(search.original_move))]
                 ELSE LET legal == Engine_legal_moves(search.board)
                      IN  [search EXCEPT !.phase = "forked",
                                         !.tasks = [i \in DOMAIN legal |-> Task(legal[i])]]
    /\ UNCHANGED <<board_vars, parse_vars, economy_vars>>

\* A task applying its move to the board it was given a reference to, not to a
\* clone.
applied_in_place(s, i) ==
    LET done == StateCapitalistBoard_apply(s.board, s.tasks[i].move)
    IN  IF done.result = "Err"
        THEN [s EXCEPT !.tasks[i].pc = "scored", !.tasks[i].score = NEG_INFINITY,
                       !.order = Append(@, i)]
        ELSE [s EXCEPT !.tasks[i].pc = "applied", !.board = done.board,
                       !.tasks[i].board_copy = {done.board}]

\* let mut board_copy = board.clone();
cloned(s, i) == [s EXCEPT !.tasks[i].pc = "cloned", !.tasks[i].board_copy = {s.board}]

\* board_copy.apply(legal_move.clone()): a move that fails is scored
\* NEG_INFINITY.
applied(s, i) ==
    LET done == StateCapitalistBoard_apply(unwrap(s.tasks[i].board_copy), s.tasks[i].move)
    IN  IF done.result = "Err"
        THEN [s EXCEPT !.tasks[i].pc = "scored", !.tasks[i].score = NEG_INFINITY,
                       !.order = Append(@, i)]
        ELSE [s EXCEPT !.tasks[i].pc = "applied", !.tasks[i].board_copy = {done.board}]

\* let score = -self.minimax(&board_copy, depth - 1, color, ..).0
recursed(s, i) ==
    [s EXCEPT !.tasks[i].pc = "scored",
              !.tasks[i].score =
                  -minimax(unwrap(s.tasks[i].board_copy), s.depth - 1, s.color,
                           IF s.original_move = {} THEN {s.tasks[i].move}
                           ELSE s.original_move).score,
              !.order = Append(@, i)]

\* The collect and what follows it: the scores in the order of the moves,
\* whatever order the tasks ended in.
joined(s) ==
    [s EXCEPT !.phase = "returned",
              !.answer = IF s.tasks = << >> THEN Scored(NEG_INFINITY, Pass)
                         ELSE max_by([i \in DOMAIN s.tasks |->
                                         Scored(s.tasks[i].score, s.tasks[i].move)])]

\* One step of one task.
Step(i, pc, after(_, _)) ==
    /\ search.phase = "forked"
    /\ search.tasks[i].pc = pc
    /\ search' = after(search, i)
    /\ UNCHANGED <<board_vars, parse_vars, economy_vars>>

Clone == \E i \in DOMAIN search.tasks : Step(i, "forked", cloned)

Apply == \E i \in DOMAIN search.tasks : Step(i, "cloned", applied)

Recurse == \E i \in DOMAIN search.tasks : Step(i, "applied", recursed)

Join ==
    /\ search.phase = "forked"
    /\ \A i \in DOMAIN search.tasks : search.tasks[i].pc = "scored"
    /\ search' = joined(search)
    /\ UNCHANGED <<board_vars, parse_vars, economy_vars>>

NextEngine ==
    \/ Fork
    \/ Clone
    \/ Apply
    \/ Recurse
    \/ Join

SpecEngine == InitEngine /\ [][NextEngine]_vars

\* ------------------------------------------------------------------------
\* A sixth state machine: calls of Board::apply, Board::spawn and
\* Board::remove_piece in any order, from a game or from the empty board
\* ------------------------------------------------------------------------

\* The calls made on a board by the sixth state machine.
MaxEdits == 2

\* The moves applied: castling, pushes and captures (one en passant), a
\* promotion, purchases on an occupied and on an empty tile, and the others.
MixedMoves ==
    {Castling(side) : side \in CastlingSide}
      \cup {mv("e", 2, "e", 4), mv("d", 7, "d", 5), mv("e", 5, "d", 6), mv("e", 1, "e", 1)}
      \cup {FromTo(at("b", 7), at("a", 8), promotion) : promotion \in {{}, {"Knight"}}}
      \cup {Purchase("Knight", at("e", 4)), Purchase("Pawn", at("g", 1))}
      \cup {PieceTo("Pawn", at("e", 4), {}), Many(<< mv("e", 2, "e", 4), mv("e", 4, "e", 5) >>)}
      \cup {Resign, Pass}

\* The pieces spawned and the tiles cleared.
MixedSpawns ==
    {[shape |-> "Spawn", piece |-> piece, to |-> to] :
        piece \in {"Pawn", "King"}, to \in {at("e", 4), at("g", 1), at("d", 6)}}

MixedRemoves ==
    {[shape |-> "Remove", to |-> to] : to \in {at("e", 1), at("h", 1), at("f", 1), at("g", 1)}}

InitMixed ==
    /\ board \in Positions \cup {empty}
    /\ prev = board
    /\ last = [shape |-> "None"]
    /\ result = "None"
    /\ calls = 0
    /\ window \in IF board = empty THEN {{}}
                 ELSE {opening_window(opening) :
                         opening \in {o \in Openings : play(default, o) = Outcome(board, "Ok")}}
    /\ line = << >>
    /\ parsed = [result |-> "None"]
    /\ search = [phase |-> "idle"]
    /\ castlers = {}
    /\ economy = banks_of(StateCapitalistBoard_new(Market_default))

\* One call on the board, which leaves it as b and returns res.
Mixed(b, res, call) ==
    /\ calls < MaxEdits
    /\ result # "Panic"
    /\ board' = b
    /\ result' = res
    /\ last' = call
    /\ prev' = board
    /\ calls' = calls + 1
    /\ window' = window_now
    /\ UNCHANGED <<castlers, parse_vars, engine_vars, economy_vars>>

\* board.apply(player_move)
MixedApply ==
    \E player_move \in MixedMoves :
        \E done \in {apply(board, player_move)} : Mixed(done.board, done.result, player_move)

\* board.spawn(piece, to)
MixedSpawn ==
    \E call \in MixedSpawns : Mixed(spawn(board, call.piece, call.to), "Ok", call)

\* board.remove_piece(location)
MixedRemove ==
    \E call \in MixedRemoves : Mixed(remove_piece(board, call.to), "Ok", call)

NextMixed ==
    \/ MixedApply
    \/ MixedSpawn
    \/ MixedRemove

SpecMixed == InitMixed /\ [][NextMixed]_vars

\* ------------------------------------------------------------------------
\* What the last call did
\* ------------------------------------------------------------------------

\* The board awaits a call, and Rank::advance panics on no pawn of it: the
\* boards on which the functions of the board and of Move are compared.
call_pending == calls < MaxCalls /\ result # "Panic" /\ ~any_pawn_panics(board)

\* The last call was a single piece move (FromTo, PieceTo or Castling).
piece_move_called == last.shape \in {"FromTo", "PieceTo", "Castling"}

\* The tiles perform_move_from_to was given by the last call.
last_from ==
    IF last.shape = "Castling" THEN king_start_position(prev.current_turn)
    ELSE IF last.shape = "PieceTo" THEN unwrap(get_eligible_piece(prev, last.piece, last.to))
    ELSE last.from

last_to ==
    IF last.shape = "Castling" THEN rook_start_position(prev.current_turn, last.side)
    ELSE last.to

\* The last call succeeded and castled: it took the castling path of
\* perform_move_from_to.
castled ==
    /\ result = "Ok"
    /\ piece_move_called
    /\ is_castling_move(prev, last_from, last_to)

\* The colour that castled: the colour of the king that stood on the home square.
castler == get_piece(prev, last_from).color

\* The last call succeeded and pushed a pawn two squares from its starting rank.
double_pushed ==
    /\ result = "Ok"
    /\ piece_move_called
    /\ ~castled
    /\ get_piece(prev, last_from).type = "Pawn"
    /\ get_file(last_from) = get_file(last_to)
    /\ \/ /\ get_piece(prev, last_from).color = "White"
          /\ get_rank(last_from) = PAWN_STARTER_WHITE
          /\ get_rank(last_to) = PAWN_STARTER_WHITE + 2
       \/ /\ get_piece(prev, last_from).color = "Black"
          /\ get_rank(last_from) = PAWN_STARTER_BLACK
          /\ get_rank(last_to) = PAWN_STARTER_BLACK - 2

\* The tiles strictly between two tiles of one rank.
between(a, b) ==
    {t \in Tiles : /\ get_rank(t) = get_rank(a)
                   /\ \/ get_file(a) < get_file(t) /\ get_file(t) < get_file(b)
                      \/ get_file(b) < get_file(t) /\ get_file(t) < get_file(a)}

\* ------------------------------------------------------------------------
\* A seventh state machine: a longer game of king, rook and castling moves,
\* from the position in which both sides may castle on either side
\* ------------------------------------------------------------------------

\* The calls made on a board by the seventh state machine.
MaxCastleCalls == 9

\* White clears its back rank between the rooks and the king, and d2, while
\* Black passes; White to move.
OpeningClear ==
    << mv("d", 2, "d", 4), Pass, mv("c", 1, "f", 4), Pass, mv("d", 1, "d", 3), Pass,
       mv("b", 1, "c", 3), Pass, mv("e", 2, "e", 3), Pass, mv("f", 1, "e", 2), Pass,
       mv("g", 1, "f", 3), Pass >>

\* The moves applied: castling on either side, the rook on d1 stepping up to
\* d2, the king walking from c1 to e1 and from e1 to d1 and back, and a pass.
CastleArgs ==
    {Castling(side) : side \in CastlingSide}
      \cup {mv("d", 1, "d", 2), mv("c", 1, "d", 1), mv("d", 1, "e", 1), mv("e", 1, "d", 1), Pass}

\* The colours that castled or whose king left its home square, the last call
\* included.
castlers_now ==
    IF /\ result = "Ok"
       /\ piece_move_called
       /\ get_piece(prev, last_from).type = "King"
       /\ castled \/ last_from = king_start_position(get_piece(prev, last_from).color)
    THEN castlers \cup {get_piece(prev, last_from).color}
    ELSE castlers

InitCastle ==
    /\ board \in {play(default, opening).board : opening \in {OpeningCastle, OpeningClear}}
    /\ prev = board
    /\ last = [shape |-> "None"]
    /\ result = "None"
    /\ calls = 0
    /\ window = {}
    /\ line = << >>
    /\ parsed = [result |-> "None"]
    /\ search = [phase |-> "idle"]
    /\ castlers = {}
    /\ economy = banks_of(StateCapitalistBoard_new(Market_default))

\* One call board.apply(player_move).
CallCastle(player_move) ==
    /\ calls < MaxCastleCalls
    /\ result # "Panic"
    /\ \E done \in {apply(board, player_move)} :
           /\ board' = done.board
           /\ result' = done.result
    /\ last' = player_move
    /\ prev' = board
    /\ calls' = calls + 1
    /\ window' = window_now
    /\ castlers' = castlers_now
    /\ UNCHANGED <<parse_vars, engine_vars, economy_vars>>

ApplyCastle == \E player_move \in CastleArgs : CallCastle(player_move)

SpecCastle == InitCastle /\ [][ApplyCastle]_vars

\* ------------------------------------------------------------------------
\* An eighth state machine: calls of StateCapitalistBoard::apply on a
\* StateCapitalistBoard made by StateCapitalistBoard::new
\* ------------------------------------------------------------------------

\* The calls made at most.
MaxPlays == 3

\* The markets a StateCapitalistBoard is made with: the default one, and the
\* default one with a base move cost of five doubloons.
Markets == {Market_default, with_base_move_cost(Market_default, doubloon * 5)}

\* The moves applied.
EconomyArgs ==
    {mv("e", 2, "e", 4), mv("d", 2, "d", 4), mv("g", 1, "f", 3), mv("e", 7, "e", 5),
     Castling("King"), Pass, Resign,
     Purchase("Pawn", at("e", 2)), Purchase("Queen", at("e", 2)), Purchase("Pawn", at("e", 7)),
     Purchase("Pawn", at("e", 3)),
     Many(<< mv("e", 2, "e", 3), mv("e", 3, "e", 4) >>),
     Many(<< mv("e", 2, "e", 3), mv("e", 3, "e", 4), mv("e", 4, "e", 5) >>)}

\* The StateCapitalistBoard of the state.
state_now ==
    StateCapitalistBoard(economy.market, economy.white_bank, economy.black_bank, board)

InitEconomy ==
    /\ board = default
    /\ prev = default
    /\ last = [shape |-> "None"]
    /\ result = "None"
    /\ calls = 0
    /\ window = {}
    /\ line = << >>
    /\ parsed = [result |-> "None"]
    /\ search = [phase |-> "idle"]
    /\ castlers = {}
    /\ economy \in {banks_of(StateCapitalistBoard_new(market)) : market \in Markets}

\* One call state.apply(player_move); a panic ends the run.
CallState(player_move) ==
    /\ calls < MaxPlays
    /\ result # "Panic"
    /\ \E done \in {State_apply(state_now, player_move)} :
           /\ board' = done.state.board
           /\ economy' = banks_of(done.state)
           /\ result' = done.result
    /\ last' = player_move
    /\ prev' = board
    /\ calls' = calls + 1
    /\ window' = window_now
    /\ UNCHANGED <<castlers, parse_vars, engine_vars>>

ApplyState == \E player_move \in EconomyArgs : CallState(player_move)

SpecEconomy == InitEconomy /\ [][ApplyState]_vars

\* ------------------------------------------------------------------------
\* The claims
\* ------------------------------------------------------------------------

\* C1: whenever Board::apply returns Ok, for a move of any shape, the side to
\* move after the call is the opposite of the side to move before it.
C1_TurnFlipsOnSuccess ==
    result = "Ok" => board.current_turn = enemy(prev.current_turn)

\* C2: when Board::apply returns Err for a FromTo, PieceTo or Castling move,
\* every field of the board equals its value before the call.
C2_FailedMoveLeavesBoard ==
    (result = "Err" /\ piece_move_called) => board = prev

\* A rejected Castling, FromTo and PieceTo each occur; here a rejected castling.
C2_Witness ==
    /\ result = "Err"
    /\ last.shape = "Castling"
    /\ calls = 2
    /\ board = prev

\* C3: after Board::apply succeeds for a FromTo, PieceTo or Castling move made
\* by the side to move with a piece of its own, that side's king is not in
\* check on the resulting board.
C3_MoverNotLeftInCheck ==
    ( /\ result = "Ok"
      /\ piece_move_called
      /\ get_piece(prev, last_from).color = prev.current_turn )
        => ~is_in_check(board, prev.current_turn)

\* C4: is_legal_piece_move(from, to) is false whenever the piece on `from` does
\* not belong to the side to move, and apply(FromTo{from, to}) never succeeds
\* for such a piece, the castling encoding included.
C4_OnlyOwnPiecesMove ==
    /\ \A from \in FromTiles, to \in ToTiles :
          ( /\ get_piece(board, from).color # board.current_turn
            /\ ~is_legal_piece_move_panics(board, from, to) )
              => ~is_legal_piece_move(board, from, to)
    /\ (result = "Ok" /\ last.shape = "FromTo")
          => get_piece(prev, last.from).color = prev.current_turn

\* C5: after a successful castling by colour c, by Move::Castling or by the
\* FromTo encoding from the king's home square to the rook's corner, both the
\* king-side and the queen-side castling flag of c are false.
C5_CastlingClearsBothFlags ==
    (castled /\ is_rook_square(last_to, get_player_side(last_from)))
        => /\ ~can_castle_color_and_side(board.castling_rights, castler, "King")
           /\ ~can_castle_color_and_side(board.castling_rights, castler, "Queen")

\* C6: across any sequence of Board::apply calls a castling flag that is false
\* never becomes true again.
C6_FlagsNeverReturn ==
    [][\A flag \in DOMAIN CastlingRights_default :
          board'.castling_rights[flag] => board.castling_rights[flag]]_vars

\* A call cleared a flag, and a later call left it cleared.
C6_Witness ==
    /\ calls = 2
    /\ \E flag \in DOMAIN CastlingRights_default :
          /\ ~prev.castling_rights[flag]
          /\ ~board.castling_rights[flag]
          /\ CastlingRights_default[flag]
    /\ \E flag \in DOMAIN CastlingRights_default :
          prev.castling_rights[flag] /\ ~board.castling_rights[flag]

\* Each castling flag that is true has that colour's king on its home square
\* and that colour's rook of that side on its home corner.
flags_match_homes(b) ==
    \A color \in Color, side \in CastlingSide :
        can_castle_color_and_side(b.castling_rights, color, side)
            => /\ king_start_position(color) \in get_king_bits(b, color)
               /\ rook_start_position(color, side) \in rooks_of(b, color)

\* C7: in every state reached from Board::default() by successful apply calls,
\* each castling flag that is true has that colour's king on its home square
\* and that colour's rook of that side on its home corner: in the positions the
\* openings reach, and after one more successful call on each of them.
C7_FlagsMatchHomes ==
    (result = "None" \/ (result = "Ok" /\ calls = 1)) => flags_match_homes(board)

C9_CastlingMovesKingAndRook ==
    castled =>
        LET side == get_castling_side(last_to)
            rank == get_rank(king_start_position(castler))
            king_to == Tile_new(rank, IF side = "King" THEN 6 ELSE 2)
            rook_to == Tile_new(rank, IF side = "King" THEN 5 ELSE 3)
        IN  \A t \in Tiles :
                get_piece(board, t) =
                    IF t = king_to THEN Piece("King", castler)
                    ELSE IF t = rook_to THEN Piece("Rook", castler)
                    ELSE IF t \in {king_start_position(castler),
                                   rook_start_position(castler, side)} THEN NoPiece
                    ELSE get_piece(prev, t)

\* C10: after a successful pawn move from its starting rank two squares
\* forward, the en-passant target is the square the pawn skipped.
C10_DoublePushSetsTarget ==
    double_pushed
        => board.en_passant =
              {Tile_new((get_rank(last_from) + get_rank(last_to)) \div 2, get_file(last_from))}

\* The second call pushed a black pawn two squares.
C10_Witness ==
    /\ double_pushed
    /\ get_piece(prev, last_from).color = "Black"
    /\ board.en_passant = {Tile_advance(last_from, "Black", 1)}
    /\ calls = 2

\* C11: after a successful call of any single move that is not a double pawn
\* push from the starting rank (plain move, capture, castling, promotion,
\* en-passant capture, Pass, Resign, Purchase) the en-passant target is absent.
C11_OtherMovesClearTarget ==
    (result = "Ok" /\ last.shape # "Many" /\ ~double_pushed) => board.en_passant = {}

\* The last call succeeded and moved a pawn diagonally onto an empty square.
en_passant_captured ==
    /\ result = "Ok"
    /\ piece_move_called
    /\ ~castled
    /\ get_piece(prev, last_from).type = "Pawn"
    /\ get_file(last_from) # get_file(last_to)
    /\ ~has_piece_on(prev, last_to)

\* C12: a diagonal pawn move onto an empty square is accepted only when the
\* half-move played just before it was a double pawn push over that square;
\* once one more half-move of any kind has been played it is rejected.
C12_CaptureOnlyInWindow ==
    en_passant_captured => window = {last_to}

\* The last call succeeded and took the en-passant branch of perform_move_from_to.
en_passant_applied ==
    /\ result = "Ok"
    /\ piece_move_called
    /\ ~castled
    /\ is_en_passant_capture(prev, last_from, last_to)

\* C13: an applied en-passant capture leaves the capturing pawn on the target
\* square, removes the opposing pawn standing one rank behind the target,
\* empties the capturer's origin square and changes no other square.
C13_EnPassantRemovesPusher ==
    en_passant_applied =>
        LET color == get_piece(prev, last_from).color
            taken == Tile_advance(last_to, color, -1)
        IN  /\ get_piece(prev, taken) = Piece("Pawn", enemy(color))
            /\ \A t \in Tiles :
                  get_piece(board, t) =
                      IF t = last_to THEN Piece("Pawn", color)
                      ELSE IF t \in {last_from, taken} THEN NoPiece
                      ELSE get_piece(prev, t)

\* The last call succeeded and moved a pawn onto the opposing back rank.
promoted ==
    /\ result = "Ok"
    /\ last.shape \in {"FromTo", "PieceTo"}
    /\ get_piece(prev, last_from).type = "Pawn"
    /\ get_rank(last_to) =
          IF get_piece(prev, last_from).color = "White" THEN BACK_RANK_BLACK
          ELSE BACK_RANK_WHITE

\* C14: when apply moves a pawn of colour c onto the opposing back rank with
\* promotion kind k, the destination then holds a piece of kind k and colour
\* c (a queen when no kind is given), the origin is empty and c has one pawn
\* fewer.
C14_PromotionSpawnsKind ==
    promoted =>
        LET color == get_piece(prev, last_from).color
            kind == IF last.promotion = {} THEN "Queen" ELSE unwrap(last.promotion)
        IN  /\ get_piece(board, last_to) = Piece(kind, color)
            /\ get_piece(board, last_from) = NoPiece
            /\ Cardinality(pawns_of(board, color)) = Cardinality(pawns_of(prev, color)) - 1

\* C15: whenever is_in_checkmate(c) is true, c is in check and no pair
\* (from, to) with a piece of c on `from` passes is_legal_piece_move.
C15_CheckmateMeansNoMove ==
    \A color \in Color :
        (call_pending /\ is_in_checkmate(board, color))
            => /\ is_in_check(board, color)
               /\ \A from \in pieces_as_bits(board, color), to \in Tiles :
                     ~is_legal_piece_move(board, from, to)

on_straight(a, b) == a # b /\ (get_rank(a) = get_rank(b) \/ get_file(a) = get_file(b))

on_diagonal(a, b) ==
    a # b /\ (get_rank(a) - get_rank(b)) * (get_rank(a) - get_rank(b))
               = (get_file(a) - get_file(b)) * (get_file(a) - get_file(b))

\* The move a-b runs along a line permitted for a rook, bishop or queen.
on_line_of(kind, a, b) ==
    CASE kind = "Rook" -> on_straight(a, b)
      [] kind = "Bishop" -> on_diagonal(a, b)
      [] kind = "Queen" -> on_straight(a, b) \/ on_diagonal(a, b)

\* The tiles strictly between two tiles of one rank, file or diagonal.
line_between(a, b) ==
    {t \in Tiles \ {a, b} :
        /\ (get_rank(t) - get_rank(a)) * (get_file(b) - get_file(a))
              = (get_file(t) - get_file(a)) * (get_rank(b) - get_rank(a))
        /\ (get_rank(t) - get_rank(a)) * (get_rank(t) - get_rank(b)) <= 0
        /\ (get_file(t) - get_file(a)) * (get_file(t) - get_file(b)) <= 0}

\* The last call succeeded and moved a rook, a bishop or a queen.
slider_moved ==
    /\ result = "Ok"
    /\ last.shape \in {"FromTo", "PieceTo"}
    /\ ~castled
    /\ get_piece(prev, last_from).type \in {"Rook", "Bishop", "Queen"}

\* A rook, bishop or queen of the side to move stands on `from`, an enemy piece
\* on `to` is the first piece met along a line of its kind, and the capture does
\* not leave the mover's king in check.
slider_capture(b, from, to) ==
    /\ get_piece(b, from).type \in {"Rook", "Bishop", "Queen"}
    /\ get_piece(b, from).color = b.current_turn
    /\ get_piece(b, to).color = enemy(b.current_turn)
    /\ on_line_of(get_piece(b, from).type, from, to)
    /\ line_between(from, to) \cap all_pieces_as_bits(b) = {}
    /\ ~is_in_check(move_piece(b, from, to), b.current_turn)

\* The tiles holding a rook, a bishop or a queen of the side to move.
sliders_to_move(b) ==
    {t \in pieces_as_bits(b, b.current_turn) :
        get_piece(b, t).type \in {"Rook", "Bishop", "Queen"}}

\* C17: apply accepts a rook, bishop or queen move only along a line permitted
\* for the kind with no occupied square strictly between source and
\* destination, and accepts every such move onto the first enemy piece of the
\* line that does not leave the mover's king in check: for the move the last
\* call made, and for every such move on a board that awaits a call.
C17_SlidersKeepToFreeLines ==
    /\ slider_moved
          => /\ on_line_of(get_piece(prev, last_from).type, last_from, last_to)
             /\ line_between(last_from, last_to) \cap all_pieces_as_bits(prev) = {}
    /\ call_pending
          => \A from \in sliders_to_move(board), to \in Tiles :
                LET accepted == apply(board, FromTo(from, to, {})).result = "Ok"
                IN  /\ accepted
                       => /\ on_line_of(get_piece(board, from).type, from, to)
                          /\ line_between(from, to) \cap all_pieces_as_bits(board) = {}
                    /\ slider_capture(board, from, to) => accepted

\* A rook has taken the first enemy piece on its file, four squares or more
\* away; on the board reached a bishop of the other side may capture along a
\* free diagonal.
C17_Witness ==
    /\ slider_moved
    /\ call_pending
    /\ slider_capture(prev, last_from, last_to)
    /\ Cardinality(line_between(last_from, last_to)) >= 4
    /\ get_piece(board, last_to) = Piece("Rook", prev.current_turn)
    /\ \E from \in sliders_to_move(board), to \in Tiles :
          get_piece(board, from).type = "Bishop" /\ slider_capture(board, from, to)

\* C18: on every board reached, every move Move::legal_moves returns is
\* accepted by Board::apply on a copy of that board.
C18_LegalMovesAreAccepted ==
    call_pending
        => \A player_move \in legal_moves(board) : apply(board, player_move).result = "Ok"

\* After a successful call the list holds a castling and a plain move, each
\* accepted.
C18_Witness ==
    /\ call_pending
    /\ result = "Ok"
    /\ \E player_move \in legal_moves(board) :
          player_move.shape = "Castling" /\ apply(board, player_move).result = "Ok"
    /\ \E player_move \in legal_moves(board) :
          /\ player_move.shape = "FromTo"
          /\ player_move.promotion = {}
          /\ apply(board, player_move).result = "Ok"

\* C19: Move::legal_moves holds every legal move of the side to move: for each
\* pair (from, to) with a piece of that side on `from` that passes
\* is_legal_piece_move, the Castling move when the pair encodes a castling,
\* the four promotions when a pawn reaches the last rank, FromTo{from, to}
\* otherwise.
C19_LegalMovesAreComplete ==
    call_pending
        => \A from \in pieces_as_bits(board, board.current_turn), to \in Tiles :
              is_legal_piece_move(board, from, to)
                  => IF is_castling_move(board, from, to)
                     THEN Castling(get_castling_side(to)) \in legal_moves(board)
                     ELSE IF is_valid_promotion(board, from, to)
                     THEN \A i \in DOMAIN PROMOTIONS :
                             FromTo(from, to, {PROMOTIONS[i]}) \in legal_moves(board)
                     ELSE FromTo(from, to, {}) \in legal_moves(board)

\* C20: Board::apply rejects every Purchase move: it returns Err and leaves the
\* board as it was.
C20_PurchaseIsRejected ==
    last.shape = "Purchase" => (result = "Err" /\ board = prev)

\* ------------------------------------------------------------------------
\* Compound moves and pre-validation (checked under SpecKept)
\* ------------------------------------------------------------------------

\* The sub-moves of the last call but the last one, and the last one.
many_front == SubSeq(last.moves, 1, Len(last.moves) - 1)

many_back == last.moves[Len(last.moves)]

\* C21: a non-empty compound move whose sub-moves all succeed is the compound
\* move of all its sub-moves but the last, then its last sub-move made by the
\* side that was to move before the call; after the call the other side is to
\* move.
C21_ManyAppliesInOrder ==
    (result = "Ok" /\ last.shape = "Many" /\ last.moves # << >>)
        => \E front \in {apply(prev, Many(many_front))} :
              /\ front.result = "Ok"
              /\ \E back \in {apply(set_turn(front.board, prev.current_turn), many_back)} :
                     /\ back.result = "Ok"
                     /\ board = set_turn(back.board, enemy(prev.current_turn))

\* A compound move of two sub-moves succeeded: the same pawn moved twice, which
\* the second sub-move could not do before the first.
C21_Witness ==
    /\ result = "Ok"
    /\ last.shape = "Many"
    /\ Len(last.moves) = 2
    /\ last.moves[1].shape = "FromTo"
    /\ last.moves[2].shape = "FromTo"
    /\ last.moves[2].from = last.moves[1].to
    /\ apply(prev, last.moves[2]).result = "Err"
    /\ board.current_turn = enemy(prev.current_turn)

C23_LegalMeansApplied ==
    (result \in {"Err", "Panic"} /\ ~is_legal_move_panics(prev, last))
        => ~is_legal_move(prev, last)

\* A compound move of two sub-moves was accepted by is_legal_move and applied.
C23_Witness ==
    /\ result = "Ok"
    /\ last.shape = "Many"
    /\ Len(last.moves) = 2
    /\ is_legal_move(prev, last)
    /\ board # prev

\* ------------------------------------------------------------------------
\* Parsing (checked under SpecParse)
\* ------------------------------------------------------------------------

\* A word Move::from_str turns into a move when it is the whole line.
well_formed(word) == from_str(<< word >>).result = "Ok"

\* C27: a line of two or more well-formed words parses to Move::Many of the
\* moves of its words, in the order of the words, whatever kinds of words they
\* are (O-O, O-O-O, resign and pass included).
C27_LineParsesToMany ==
    (parsed.result # "None" /\ Len(line) >= 2 /\ \A i \in DOMAIN line : well_formed(line[i]))
        => parsed = Parsed(Many([i \in DOMAIN line |-> from_str(<< line[i] >>).move]))

\* C28: a line holding a malformed word (a length no form has, an unknown
\* piece letter, a file or rank character out of range) is refused whole:
\* Move::from_str returns Err, it does not panic and returns no move.
C28_MalformedWordFailsLine ==
    (parsed.result # "None" /\ \E i \in DOMAIN line : ~well_formed(line[i]))
        => parsed.result = "Err"

\* ------------------------------------------------------------------------
\* The search (checked under SpecEngine)
\* ------------------------------------------------------------------------

\* The greatest and the least of a set of scores.
greatest(values) == CHOOSE v \in values : \A w \in values : w <= v

least(values) == CHOOSE v \in values : \A w \in values : v <= w

\* The minimax value, for the side `root`, of a position with `depth` plies
\* left to search: the evaluation of a leaf for `root`; the greatest value of
\* the positions the moves lead to when `root` is to move, the least when the
\* opponent is; the worst value for the side to move when it has no move, and
\* for a move that fails to apply.
RECURSIVE minimax_value(_, _, _)
branch_value(b, player_move, depth, root) ==
    LET done == StateCapitalistBoard_apply(b, player_move)
    IN  IF done.result = "Err"
        THEN IF whose_turn(b) = root THEN NEG_INFINITY ELSE -NEG_INFINITY
        ELSE minimax_value(done.board, depth - 1, root)

minimax_value(b, depth, root) ==
    IF depth = 0 THEN evaluate(b, root)
    ELSE LET legal == Engine_legal_moves(b)
             values == {branch_value(b, legal[i], depth, root) : i \in DOMAIN legal}
         IN  IF legal = << >>
             THEN IF whose_turn(b) = root THEN NEG_INFINITY ELSE -NEG_INFINITY
             ELSE IF whose_turn(b) = root THEN greatest(values) ELSE least(values)

\* The call made by best_move on a position that has a legal move returned.
best_move_returned ==
    /\ search.phase = "returned"
    /\ search.depth = 4
    /\ search.original_move = {}
    /\ Engine_legal_moves(search.entry) # << >>

\* C24: the move best_move returns is a legal move of the root whose minimax
\* value at depth 4 is the greatest among the root's moves.
C24_BestMoveIsMinimax ==
    best_move_returned
        => LET legal == Engine_legal_moves(search.entry)
               root == whose_turn(search.entry)
           IN  /\ \E i \in DOMAIN legal : legal[i] = search.answer.move
               /\ \A i \in DOMAIN legal :
                      branch_value(search.entry, legal[i], 4, root)
                          <= branch_value(search.entry, search.answer.move, 4, root)

\* best_move returned the first move of a root whose first move is worth more
\* than its second, neither of them at an infinite value.
C24_Witness ==
    /\ best_move_returned
    /\ search.answer.move = Nth(1)
    /\ branch_value(search.entry, Nth(2), 4, whose_turn(search.entry))
           < branch_value(search.entry, Nth(1), 4, whose_turn(search.entry))
    /\ branch_value(search.entry, Nth(2), 4, whose_turn(search.entry)) # NEG_INFINITY
    /\ branch_value(search.entry, Nth(1), 4, whose_turn(search.entry)) # -NEG_INFINITY

\* C25: of the sibling moves that share the greatest score, minimax returns
\* the first in generation order.
C25_TiesGoToFirst ==
    (search.phase = "returned" /\ search.tasks # << >>)
        => \E k \in DOMAIN search.tasks :
              /\ search.answer = Scored(search.tasks[k].score, search.tasks[k].move)
              /\ \A i \in DOMAIN search.tasks :
                     i < k => search.tasks[i].score < search.tasks[k].score

\* C26: whatever order the sibling tasks run and end in, minimax returns what
\* it returns when they run one after the other in generation order; every
\* task works on a clone of the board the call was given, which the call
\* leaves as it was.
C26_ScheduleDoesNotMatter ==
    /\ search.phase # "idle" => search.board = search.entry
    /\ search.phase = "returned"
           => search.answer = minimax(search.entry, search.depth, search.color,
                                      search.original_move)
    /\ search.phase \in {"forked", "returned"}
           => \A i \in DOMAIN search.tasks :
                 /\ search.tasks[i].pc = "cloned" => search.tasks[i].board_copy = {search.entry}
                 /\ search.tasks[i].pc = "applied"
                        => search.tasks[i].board_copy
                              = {StateCapitalistBoard_apply(search.entry,
                                                            search.tasks[i].move).board}

\* A call returned whose second task ended before its first, the two with
\* different scores.
C26_Witness ==
    /\ search.phase = "returned"
    /\ search.order = << 2, 1 >>
    /\ search.tasks[1].score # search.tasks[2].score
    /\ search.answer = minimax(search.entry, search.depth, search.color, search.original_move)

\* The value of a position to the side to move in it, with `depth` plies left
\* to search: the evaluation of a leaf for the side to move there; otherwise
\* the greatest, over the moves, of the opposite of the value of the position
\* the move leads to; the worst value when there is no move, and for a move
\* that fails to apply.
RECURSIVE negamax_value(_, _)
negamax_branch(b, player_move, depth) ==
    LET done == StateCapitalistBoard_apply(b, player_move)
    IN  IF done.result = "Err" THEN NEG_INFINITY
        ELSE -negamax_value(done.board, depth - 1)

negamax_value(b, depth) ==
    IF depth = 0 THEN evaluate(b, whose_turn(b))
    ELSE LET legal == Engine_legal_moves(b)
         IN  IF legal = << >> THEN NEG_INFINITY
             ELSE greatest({negamax_branch(b, legal[i], depth) : i \in DOMAIN legal})

\* A call of minimax on a position for its side to move returned.
root_call_returned ==
    /\ search.phase = "returned"
    /\ search.original_move = {}
    /\ search.color = whose_turn(search.entry)

\* C35: at every depth from 1 on, odd or even, the score minimax returns for a
\* position is the value of the position to the side to move in it, and the
\* move it returns at the root is one of the best for that side.
C35_ScoreIsValueToMover ==
    root_call_returned
        => /\ search.answer.score = negamax_value(search.entry, search.depth)
           /\ \A i \in DOMAIN search.tasks :
                  negamax_branch(search.entry, search.tasks[i].move, search.depth)
                      <= negamax_branch(search.entry, search.answer.move, search.depth)

\* The same at the even depths only.
ScoreIsValueAtEvenDepth ==
    (root_call_returned /\ search.depth % 2 = 0) => C35_ScoreIsValueToMover

\* ------------------------------------------------------------------------
\* Pieces put and taken, and sectors (checked under SpecEdit)
\* ------------------------------------------------------------------------

\* C29: after a piece of a kind and a colour is spawned on a tile, by
\* Board::spawn with that colour to move or by the primitive of that colour
\* and kind, get_piece of the tile is that piece whatever stood there; after
\* remove_piece of a tile, get_piece of it is None; get_piece of every other
\* tile is as before.
C29_SpawnThenGetPiece ==
    last.shape \in {"Spawn", "SpawnPrimitive", "Remove"}
        => /\ get_piece(board, last.to)
                 = CASE last.shape = "Spawn" -> Piece(last.piece, prev.current_turn)
                     [] last.shape = "SpawnPrimitive" -> Piece(last.piece, last.color)
                     [] last.shape = "Remove" -> NoPiece
           /\ \A tile \in Tiles \ {last.to} : get_piece(board, tile) = get_piece(prev, tile)

\* The total value of the pieces of a colour in a sector, in hundredths.
RECURSIVE total_value(_, _, _)
total_value(b, tiles, color) ==
    IF tiles = {} THEN 0
    ELSE LET tile == CHOOSE t \in tiles : TRUE
         IN  (IF get_piece(b, tile).color = color THEN get_value(get_piece(b, tile).type) ELSE 0)
                 + total_value(b, tiles \ {tile}, color)

\* C30: a colour controls a sector exactly when the total value of its pieces
\* in the sector (pawn 1, knight 3, bishop 3.15, rook 5, queen 9, king 100) is
\* strictly above the total of the other colour's.
C30_MajorityControlsSector ==
    \A sector \in 0 .. NUM_SECTORS - 1, color \in Color :
        controls_sector(board, sector, color)
            <=> total_value(board, sector_bits(Tiles, sector), color)
                    > total_value(board, sector_bits(Tiles, sector), enemy(color))

\* ------------------------------------------------------------------------
\* Invariants of the board (checked under SpecMixed and Spec)
\* ------------------------------------------------------------------------

\* The twelve occupancy masks of a board.
Masks == {mask_of(type, color) : type \in PieceType, color \in Color}

\* C31: after any sequence of Board::apply, Board::spawn and remove_piece
\* calls from Board::default() or Board::empty(), no tile is set in more than
\* one of the twelve occupancy masks.
C31_MasksAreDisjoint ==
    \A tile \in Tiles : Cardinality({mask \in Masks : tile \in board[mask]}) <= 1

\* A piece was spawned on a tile held by another piece, and a castling, a
\* capture or a promotion was applied after an edit.
C31_Witness ==
    /\ calls = MaxEdits
    /\ result = "Ok"
    /\ \/ /\ last.shape = "Spawn"
          /\ has_piece_on(prev, last.to)
          /\ get_piece(prev, last.to) # get_piece(board, last.to)
       \/ /\ last.shape = "Castling"
          /\ board # prev

\* C32: after a call of Board::apply that returns Ok, an en-passant target
\* that is set lies on the third or the sixth rank and the pawn that made the
\* double push stands on the tile right past it: the en-passant part of
\* Board::sanity_check passes.
C32_EnPassantTargetBehindPawn ==
    result = "Ok" => sanity_check_en_passant(board)

\* ------------------------------------------------------------------------
\* Which piece a PieceTo move names (checked under SpecKept)
\* ------------------------------------------------------------------------

\* The tiles holding a piece of a kind of the side to move whose movement
\* geometry permits reaching a tile.
eligible_tiles(b, kind, to) ==
    {tile \in Tiles :
        /\ get_piece(b, tile) = Piece(kind, b.current_turn)
        /\ can_move(get_piece(b, tile), tile, to, has_piece_on(b, to), b.en_passant)}

\* The first of them in index order.
first_eligible(b, kind, to) ==
    CHOOSE tile \in eligible_tiles(b, kind, to) :
        \A other \in eligible_tiles(b, kind, to) : tile <= other

pawn_candidate_place(from, to) ==
    IF get_file(to) = get_file(from) + 1 THEN 1
    ELSE IF get_file(to) = get_file(from) - 1 THEN 2
    ELSE IF get_rank(to) - get_rank(from) \in {1, -1} THEN 3
    ELSE 4

\* The place of a promotion among knight, bishop, rook, queen.
promotion_place(promotion) ==
    IF promotion = {"Knight"} THEN 1
    ELSE IF promotion = {"Bishop"} THEN 2
    ELSE IF promotion = {"Rook"} THEN 3
    ELSE IF promotion = {"Queen"} THEN 4
    ELSE 0

\* C34: Move::legal_moves lists the piece moves by ascending source tile; the
\* moves of one pawn with the diagonal toward the higher file first, then the
\* diagonal toward the lower file, the single step, the double step; the
\* promotions of one pawn move as knight, bishop, rook, queen; and the
\* castling moves last, the king side before the queen side.
C34_LegalMovesAreOrdered ==
    call_pending
        => \E moves \in {legal_moves_vec(board)} :
              \A i \in DOMAIN moves, j \in DOMAIN moves :
                 i < j =>
                    /\ moves[i].shape = "Castling"
                          => moves[j] = Castling("Queen") /\ moves[i] = Castling("King")
                    /\ (moves[i].shape = "FromTo" /\ moves[j].shape = "FromTo")
                          => /\ moves[i].from <= moves[j].from
                             /\ (/\ moves[i].from = moves[j].from
                                 /\ get_piece(board, moves[i].from).type = "Pawn")
                                   => pawn_candidate_place(moves[i].from, moves[i].to)
                                         <= pawn_candidate_place(moves[j].from, moves[j].to)
                             /\ (moves[i].from = moves[j].from /\ moves[i].to = moves[j].to)
                                   => /\ promotion_place(moves[i].promotion) > 0
                                      /\ promotion_place(moves[i].promotion)
                                            < promotion_place(moves[j].promotion)

\* The list holds, for one pawn, the four promotions of a capture toward the
\* higher file and then the four of a capture toward the lower file.
C34_Witness ==
    /\ call_pending
    /\ \E moves \in {legal_moves_vec(board)} :
          \E i \in DOMAIN moves :
             /\ i + 7 \in DOMAIN moves
             /\ \A k \in 0 .. 7 : moves[i + k].from = moves[i].from
             /\ \A k \in 0 .. 3 :
                   /\ moves[i + k].to = moves[i].to
                   /\ moves[i + k].promotion = {PROMOTIONS[k + 1]}
                   /\ moves[i + 4 + k].to = moves[i + 4].to
                   /\ moves[i + 4 + k].promotion = {PROMOTIONS[k + 1]}
             /\ get_file(moves[i].to) = get_file(moves[i].from) + 1
             /\ get_file(moves[i + 4].to) = get_file(moves[i].from) - 1

\* The list holds the moves of the set legal_moves(board) and no other.
LegalMovesListedAsGenerated ==
    call_pending
        => {legal_moves_vec(board)[i] : i \in DOMAIN legal_moves_vec(board)} = legal_moves(board)

\* ------------------------------------------------------------------------
\* What a move takes from the board (checked under Spec)
\* ------------------------------------------------------------------------

\* The number of pieces of a colour on a board.
piece_count(b, color) == Cardinality(pieces_as_bits(b, color))

\* C36: after a FromTo, PieceTo or Castling move that Board::apply accepted,
\* the colour that moved has as many pieces as before and the other colour as
\* many or one fewer.
C36_MoverKeepsItsPieces ==
    (result = "Ok" /\ piece_move_called)
        => \E mover \in {get_piece(prev, last_from).color} :
              /\ piece_count(board, mover) = piece_count(prev, mover)
              /\ piece_count(board, enemy(mover))
                    \in {piece_count(prev, enemy(mover)), piece_count(prev, enemy(mover)) - 1}

\* The same for the moves that are not carried out as a castling.
MoverKeepsItsPiecesOtherwise ==
    (result = "Ok" /\ piece_move_called /\ ~castled) => C36_MoverKeepsItsPieces

\* ------------------------------------------------------------------------
\* Castling once (checked under SpecCastle)
\* ------------------------------------------------------------------------

\* C37: once a colour has castled, on either side, or its king has left its
\* home square, Board::apply accepts no castling by that colour, even with
\* the king back on its home square: each colour castles at most once.
C37_CastlesAtMostOnce ==
    castled => get_piece(prev, last_from).color \notin castlers


\* ------------------------------------------------------------------------
\* Applied means legal (checked under SpecKept)
\* ------------------------------------------------------------------------

\* C38: a move Board::apply applied, returning Ok, is one Board::is_legal_move
\* accepts on the board the call was made on.
C38_AppliedMeansLegal ==
    (result = "Ok" /\ ~is_legal_move_panics(prev, last)) => is_legal_move(prev, last)

\* The same for the moves of one piece, for castling and for resigning.
AppliedPieceMoveIsLegal ==
    (result = "Ok" /\ last.shape \in {"FromTo", "PieceTo", "Castling", "Resign"})
        => C38_AppliedMeansLegal


\* ------------------------------------------------------------------------
\* Check and the capture of the king (checked under Spec)
\* ------------------------------------------------------------------------

\* C39: when a piece of the side to move may, by Board::is_legal_piece_move,
\* move onto the tile of a king of the other colour, Board::is_in_check
\* reports that colour in check.
C39_KingCaptureMeansCheck ==
    \A from \in pieces_as_bits(board, board.current_turn),
       to \in get_king_bits(board, enemy(board.current_turn)) :
        is_legal_piece_move(board, from, to) => is_in_check(board, enemy(board.current_turn))

\* The same for every piece but the knight.
KingCaptureMeansCheckButKnight ==
    \A from \in pieces_as_bits(board, board.current_turn),
       to \in get_king_bits(board, enemy(board.current_turn)) :
        (get_piece(board, from).type # "Knight" /\ is_legal_piece_move(board, from, to))
            => is_in_check(board, enemy(board.current_turn))


\* ------------------------------------------------------------------------
\* Legal moves and the bank (checked under SpecEconomy)
\* ------------------------------------------------------------------------

\* C40: every move StateCapitalistBoard::legal_moves returns is applied by
\* StateCapitalistBoard::apply on the same state, which returns Ok, whatever
\* the balance of the mover's bank.
C40_LegalMovesApply ==
    (result # "Panic" /\ ~StateCapitalistBoard_legal_moves_panics(state_now))
        => \A player_move \in StateCapitalistBoard_legal_moves(state_now) :
              State_apply(state_now, player_move).result = "Ok"

\* The same for the moves the mover's bank can afford.
AffordableLegalMovesApply ==
    (result # "Panic" /\ ~StateCapitalistBoard_legal_moves_panics(state_now))
        => \A player_move \in StateCapitalistBoard_legal_moves(state_now) :
              can_afford(get_bank(state_now, board.current_turn), player_move)
                  => State_apply(state_now, player_move).result = "Ok"

\* StateCapitalistBoard::legal_moves fails none of its asserts.
LegalMovesAssertsHold ==
    result # "Panic" => ~StateCapitalistBoard_legal_moves_panics(state_now)


\* The same on a StateCapitalistBoard made with the default market.
LegalMovesApplyInDefaultMarket ==
    economy.market = Market_default => C40_LegalMovesApply

====
